---- MODULE Spec2Model ----
(***************************************************************************)
(* Model of gunk's generate package (src/generate/generate.go): the        *)
(* translation of Gunk packages to protobuf descriptor files, the loading  *)
(* of external proto dependencies, the topological ordering of descriptor  *)
(* files and the driving of protoc and protoc-gen-* plugins.               *)
(*                                                                         *)
(* Strings are sequences of atoms.  An atom stands for one character or    *)
(* for a run of characters no operation of the program ever splits ("a",   *)
(* "/", "all.proto", "fake-path.com", ...).  Prefix tests, trimming,       *)
(* splitting and cleaning work on the atoms as the Go functions work on    *)
(* bytes.                                                                  *)
(***************************************************************************)
EXTENDS Integers, Sequences, FiniteSets, TLC

(***************************************************************************)
(* Sequence helpers                                                        *)
(***************************************************************************)
Range(s) == { s[i] : i \in 1..Len(s) }

Last(s) == s[Len(s)]

\* All sequences without repetition that enumerate the finite set S: the
\* orders in which Go's range over a map may deliver its keys.
RECURSIVE Perms(_)
Perms(S) ==
    IF S = {} THEN { <<>> }
    ELSE UNION { { <<x>> \o p : p \in Perms(S \ {x}) } : x \in S }

\* Position of the first occurrence of x in s, 0 when absent.
RECURSIVE IndexFrom(_, _, _)
IndexFrom(s, x, i) ==
    IF i > Len(s) THEN 0
    ELSE IF s[i] = x THEN i
    ELSE IndexFrom(s, x, i + 1)

IndexOf(s, x) == IndexFrom(s, x, 1)

(***************************************************************************)
(* strings / path / filepath                                               *)
(***************************************************************************)
Slash == "/"

\* strings.HasPrefix
HasPrefix(s, p) == Len(p) <= Len(s) /\ SubSeq(s, 1, Len(p)) = p

\* strings.TrimPrefix
TrimPrefix(s, p) == IF HasPrefix(s, p) THEN SubSeq(s, Len(p) + 1, Len(s)) ELSE s

\* Index of the last "/" of s, 0 when there is none.
RECURSIVE LastSlashFrom(_, _)
LastSlashFrom(s, i) ==
    IF i = 0 THEN 0
    ELSE IF s[i] = Slash THEN i
    ELSE LastSlashFrom(s, i - 1)

LastSlash(s) == LastSlashFrom(s, Len(s))

\* filepath.Split / path.Split: the directory keeps its trailing slash.
SplitDir(s) == SubSeq(s, 1, LastSlash(s))
SplitFile(s) == SubSeq(s, LastSlash(s) + 1, Len(s))

\* The components of s between slashes (empty components included).
RECURSIVE Components(_, _, _)
Components(s, i, cur) ==
    IF i > Len(s) THEN <<cur>>
    ELSE IF s[i] = Slash THEN <<cur>> \o Components(s, i + 1, <<>>)
    ELSE Components(s, i + 1, Append(cur, s[i]))

\* filepath.Clean's treatment of the components: "" and "." are dropped,
\* ".." removes the component before it (is dropped at the root, is kept
\* at the start of a relative path).
RECURSIVE CleanComps(_, _, _, _)
CleanComps(cs, i, out, rooted) ==
    IF i > Len(cs) THEN out
    ELSE IF cs[i] = <<>> \/ cs[i] = <<".">> THEN CleanComps(cs, i + 1, out, rooted)
    ELSE IF cs[i] = <<"..">> THEN
        IF Len(out) > 0 /\ Last(out) # <<"..">>
          THEN CleanComps(cs, i + 1, SubSeq(out, 1, Len(out) - 1), rooted)
        ELSE IF rooted THEN CleanComps(cs, i + 1, out, rooted)
        ELSE CleanComps(cs, i + 1, Append(out, cs[i]), rooted)
    ELSE CleanComps(cs, i + 1, Append(out, cs[i]), rooted)

RECURSIVE JoinComps(_, _)
JoinComps(cs, i) ==
    IF i > Len(cs) THEN <<>>
    ELSE IF i = Len(cs) THEN cs[i]
    ELSE cs[i] \o <<Slash>> \o JoinComps(cs, i + 1)

\* filepath.Clean
Clean(s) ==
    IF s = <<>> THEN <<".">>
    ELSE LET rooted == s[1] = Slash
             body == JoinComps(CleanComps(Components(s, 1, <<>>), 1, <<>>, rooted), 1)
         IN  IF rooted THEN <<Slash>> \o body
             ELSE IF body = <<>> THEN <<".">>
             ELSE body

\* filepath.Join of two elements: empty elements are ignored, the rest is
\* joined with a slash and cleaned; the join of nothing is "".
Join(a, b) ==
    IF a = <<>> /\ b = <<>> THEN <<>>
    ELSE IF a = <<>> THEN Clean(b)
    ELSE IF b = <<>> THEN Clean(a)
    ELSE Clean(a \o <<Slash>> \o b)

(***************************************************************************)
(* The input of one run.  world is chosen at the start and never changes:  *)
(* it fixes what the loader, the configuration loader and the generators'  *)
(* command line deliver.  Two families of inputs are explored: family "T"  *)
(* varies the import graph and the declarations of three Gunk packages,    *)
(* family "G" varies the generator configuration and the known packages.   *)
(***************************************************************************)
VARIABLES
    world,    \* the input of the run (constant)
    pc,       \* position of Run / FileDescriptorSet
    pkgIdx,   \* index into pkgs of the package being translated or generated
    genIdx,   \* index of the next generator of the package being generated
    gen,      \* the Generator's fields
    stack,    \* the active translatePkg calls, innermost last
    req,      \* the CodeGeneratorRequest of the package being generated
    ret,      \* what the entry point returned: "" while it runs
    procs,    \* the generator processes spawned so far, in order
    written,  \* the files written so far, in order
    hist      \* history: what was called, walked, loaded and returned so far

vars == <<world, pc, pkgIdx, genIdx, gen, stack, req, ret, procs, written, hist>>

(***************************************************************************)
(* Type terms (go/types) and declarations (go/ast) as the loader delivers  *)
(* them.  elem holds the element type of a slice or channel, or the key    *)
(* and the element type of a map.                                          *)
(***************************************************************************)
Basic(kind) == [k |-> "Basic", kind |-> kind, pkg |-> <<>>, name |-> "", elem |-> <<>>]
\* A named type of package pkg; kind is the kind of its underlying type
\* ("struct", or the kind of a basic type).
Named(pkg, name, under) == [k |-> "Named", kind |-> under, pkg |-> pkg, name |-> name, elem |-> <<>>]
Slice(e) == [k |-> "Slice", kind |-> "", pkg |-> <<>>, name |-> "", elem |-> <<e>>]
Chan(e) == [k |-> "Chan", kind |-> "", pkg |-> <<>>, name |-> "", elem |-> <<e>>]
Map(key, e) == [k |-> "Map", kind |-> "", pkg |-> <<>>, name |-> "", elem |-> <<key, e>>]
\* A type outside the mapping table (a pointer).
Pointer(e) == [k |-> "Pointer", kind |-> "", pkg |-> <<>>, name |-> "", elem |-> <<e>>]

TimeTime == Named(<<"time">>, "Time", "struct")
TimeDuration == Named(<<"time">>, "Duration", "int64")

\* An option tag: its type and, for an http.Match literal, its keys.
Tag(type) == [Type |-> type, Method |-> "", Path |-> "", Body |-> ""]
HttpMatch(method, path) ==
    [Type |-> "github.com/gunk/opt/http.Match", Method |-> method, Path |-> path, Body |-> ""]

(***************************************************************************)
(* Syntax trees (go/ast) of the source files.                              *)
(***************************************************************************)
\* An import spec; Name is "" (none) or "_".
ImportSpec(path, name) == [Path |-> path, Name |-> name]
\* A struct field; Tag is <<>> (no tag) or <<text of the pb key>>.
Field(name, type, tag) ==
    [Names |-> <<name>>, Type |-> type, Tag |-> tag, Tags |-> <<>>, Doc |-> ""]
Method(name, params, results, tags) ==
    [Names |-> <<name>>, Params |-> params, Results |-> results, Tags |-> tags, Doc |-> ""]
\* A type spec; Kind is the kind of ts.Type: "struct", "interface",
\* "ident" or anything else.
TypeSpec(name, kind, fields, methods, doc) ==
    [Name |-> name, Kind |-> kind, Fields |-> fields, Methods |-> methods,
     Tags |-> <<>>, Doc |-> doc]
\* A value spec of a CONST declaration with its declared type.
ValueSpec(name, type, val) ==
    [Names |-> <<name>>, Type |-> type, Val |-> val, Tags |-> <<>>, Doc |-> "",
     DocNamesValue |-> FALSE]
GenDecl(tok, specs) == [Tok |-> tok, Specs |-> specs]
File(imports, decls) == [Doc |-> "", Imports |-> imports, Decls |-> decls]

(***************************************************************************)
(* The packages of the run (loader.GunkPackage).                           *)
(***************************************************************************)
pA == <<"a">>
pAB == <<"a", "/", "b">>
pC == <<"c">>
\* A Go package without Gunk files.
pN == <<"n">>
\* The import path the loader reports for files named on the command line.
pCLA == <<"command-line-arguments">>

\* How package P relates to package Q in a family "T" input:
\*   "none"    P does not mention Q
\*   "unused"  P imports Q and converts no type of Q
\*   "blank"   P imports Q with the name _
\*   "used"    P imports Q and has a field whose type is a named type of Q
\*   "alias"   P has a field whose type is a named type of Q (reached
\*             through an alias declared elsewhere) without importing Q
\*   "blankused"  as "alias", and P imports Q with the name _
ImportsFor(q, mode) ==
    CASE mode \in {"unused", "used"} -> <<ImportSpec(q, "")>>
      [] mode \in {"blank", "blankused"} -> <<ImportSpec(q, "_")>>
      [] OTHER -> <<>>

FieldsFor(q, mode, fname) ==
    IF mode \in {"used", "alias", "blankused"}
      THEN <<Field(fname, Named(q, "T", "struct"), <<"2">>)>>
      ELSE <<>>

LoaderImports(q, mode) ==
    IF mode \in {"unused", "used", "blank", "blankused"} THEN {q} ELSE {}

\* The declarations every package has: a message T with a string field.
OwnFields == <<Field("S", Basic("string"), <<"1">>)>>

\* A declaration translateDecl rejects: a field of pointer type.
BadDecl == GenDecl("TYPE", <<TypeSpec("Bad", "struct",
                <<Field("P", Pointer(Basic("string")), <<"1">>)>>, <<>>, "")>>)

\* The service of package a: "empty" a method without parameters, "http" a
\* method with two http.Match tags, "time" no service and a time.Time field.
ServiceDecls(svc) ==
    CASE svc = "empty" ->
            <<GenDecl("TYPE", <<TypeSpec("Srv", "interface", <<>>,
                <<Method("Ping", <<>>, <<Named(pA, "T", "struct")>>, <<>>)>>, "")>>)>>
      [] svc = "http" ->
            <<GenDecl("TYPE", <<TypeSpec("Srv", "interface", <<>>,
                <<Method("Get", <<Named(pA, "T", "struct")>>, <<Chan(Named(pA, "T", "struct"))>>,
                         <<HttpMatch("", "/get"), HttpMatch("POST", "/get")>>)>>, "")>>)>>
      [] svc = "time" ->
            <<GenDecl("TYPE", <<TypeSpec("Stamp", "struct",
                <<Field("At", TimeTime, <<"1">>)>>, <<>>, "")>>)>>
      [] OTHER -> <<>>

GunkFileName(n) == IF n = 1 THEN "1.gunk" ELSE "2.gunk"

MkPackage(path, name, dir, files, imports) ==
    [PkgPath |-> path, Name |-> name, ProtoName |-> name, Dir |-> dir,
     GunkNames |-> [n \in 1..Len(files) |-> dir \o <<"/", GunkFileName(n)>>],
     GunkSyntax |-> files, FileTags |-> <<>>, Imports |-> imports]

DirOf(path) == <<"/", "w", "/">> \o path

\* Package a has two source files: the first imports a/b, the second
\* imports c, n and, when a/b is used, a/b once more.
PackageA(w) ==
    MkPackage(pA, "a", DirOf(pA),
        << File(ImportsFor(pAB, w.ab),
                <<GenDecl("IMPORT", <<>>),
                  GenDecl("TYPE", <<TypeSpec("T", "struct",
                      OwnFields \o FieldsFor(pAB, w.ab, "B"), <<>>, "doc")>>)>>
                \o ServiceDecls(w.svc)
                \o (IF w.bad = "a" THEN <<BadDecl>> ELSE <<>>)),
           File(ImportsFor(pC, w.ac) \o ImportsFor(pN, w.an)
                  \o (IF w.ab = "used" THEN ImportsFor(pAB, "used") ELSE <<>>),
                <<GenDecl("TYPE", <<TypeSpec("U", "struct",
                      FieldsFor(pC, w.ac, "C") \o FieldsFor(pN, w.an, "N"), <<>>, "")>>)>>) >>,
        LoaderImports(pAB, w.ab) \cup LoaderImports(pC, w.ac) \cup LoaderImports(pN, w.an))

PackageB(w) ==
    MkPackage(pAB, "b", DirOf(pAB),
        << File(ImportsFor(pC, w.bc),
                <<GenDecl("TYPE", <<TypeSpec("T", "struct",
                      OwnFields \o FieldsFor(pC, w.bc, "C"), <<>>, "")>>)>>
                \o (IF w.bad = "b" THEN <<BadDecl>> ELSE <<>>)) >>,
        LoaderImports(pC, w.bc))

\* Package c may import a back (w.ca): the syntax tree then holds an
\* import the loader's Imports map does not follow.
PackageC(w) ==
    MkPackage(pC, "c", DirOf(pC),
        << File(ImportsFor(pA, w.ca),
                <<GenDecl("TYPE", <<TypeSpec("T", "struct",
                      OwnFields \o FieldsFor(pA, w.ca, "A"), <<>>, "")>>),
                  GenDecl("TYPE", <<TypeSpec("E", "ident", <<>>, <<>>, "")>>),
                  GenDecl("CONST", <<ValueSpec("E0", "E", [hi |-> 0, lo |-> 0]), ValueSpec("X", "", [hi |-> 0, lo |-> 1])>>)>>) >>,
        {})

PackageN == MkPackage(pN, "n", DirOf(pN), <<>>, {})

\* The package of files named on the command line, in directory w.dir.
PackageCLA(w) ==
    MkPackage(pCLA, "main", w.dir,
        << File(<<>>, <<GenDecl("TYPE", <<TypeSpec("T", "struct", OwnFields, <<>>, "")>>)>>) >>,
        {})

\* Every package the loader can deliver.
Loaded == { pA, pAB, pC, pN, pCLA }

\* What the loader delivers for input w, by import path.
Packages(w) ==
    [path \in Loaded |->
        CASE path = pA -> PackageA(w)
          [] path = pAB -> PackageB(w)
          [] path = pC -> PackageC(w)
          [] path = pN -> PackageN
          [] path = pCLA -> PackageCLA(w)]

\* The loader's package with this import path.
GunkPackage(path) == world.packages[path]

\* Names of the proto files the translation itself asks for.
EmptyProto == <<"google/protobuf/empty.proto">>
TimestampProto == <<"google/protobuf/timestamp.proto">>
DurationProto == <<"google/protobuf/duration.proto">>
AnnotationsProto == <<"google/api/annotations.proto">>
OpenapiProto == <<"protoc-gen-openapiv2/options/annotations.proto">>

\* unifiedProtoFile: the name of the one descriptor file of a package.
unifiedProtoFile(pkgPath) == Join(pkgPath, <<"all.proto">>)

\* The descriptor file g.pfile points to; g.pfile is modelled by its key
\* in g.allProto, where translatePkg registers it.
PF(g) == g.allProto[g.pfile]

(***************************************************************************)
(* addProtoDep                                                             *)
(***************************************************************************)
addProtoDep(g, protoPath) ==
    IF protoPath \in Range(PF(g).Dependency) THEN g
    ELSE [g EXCEPT !.allProto[g.pfile].Dependency = Append(@, protoPath)]

(***************************************************************************)
(* qualifiedTypeName and convertType                                       *)
(***************************************************************************)
\* pkg = <<>> stands for the nil package: the current package.
qualifiedTypeName(g, typeName, pkg) ==
    IF pkg = <<>> THEN
        [name |-> <<".", GunkPackage(g.curPkg).ProtoName, ".", typeName>>, err |-> FALSE]
    ELSE IF pkg \notin g.gunkPkgs THEN [name |-> <<>>, err |-> TRUE]
    ELSE [name |-> <<".", GunkPackage(pkg).ProtoName, ".", typeName>>, err |-> FALSE]

\* What convertType returns, with the Generator it leaves; "0" is the zero
\* value of the type and of the label.
Conv(g, t, l, n, e) == [g |-> g, ptype |-> t, plabel |-> l, tname |-> n, err |-> e]

BasicKinds ==
    { "string", "int", "int32", "uint", "uint32", "int64", "uint64",
      "float32", "float64", "bool" }

BasicProto(kind) ==
    CASE kind = "string" -> "TYPE_STRING"
      [] kind \in {"int", "int32"} -> "TYPE_INT32"
      [] kind \in {"uint", "uint32"} -> "TYPE_UINT32"
      [] kind = "int64" -> "TYPE_INT64"
      [] kind = "uint64" -> "TYPE_UINT64"
      [] kind = "float32" -> "TYPE_FLOAT"
      [] kind = "float64" -> "TYPE_DOUBLE"
      [] kind = "bool" -> "TYPE_BOOL"

\* The named-type case of convertType once qualifiedTypeName has returned
\* q; gm is the Generator after the statement that marks the import used.
namedCase(g, gm, typ, q) ==
    IF q.err THEN Conv(g, "0", "0", <<>>, TRUE)
    ELSE IF typ.kind \in {"int", "int32"}
      THEN Conv(gm, "TYPE_ENUM", "LABEL_OPTIONAL", q.name, FALSE)
    ELSE IF typ.kind = "struct"
      THEN Conv(gm, "TYPE_MESSAGE", "LABEL_OPTIONAL", q.name, FALSE)
    ELSE Conv(gm, "0", "0", <<>>, FALSE)

\* The named-type case with the marking of the used import left out.
convertNamedUnmarked(g, typ) ==
    namedCase(g, g, typ, qualifiedTypeName(g, typ.name, typ.pkg))

\* The named-type case of convertType for types other than time.Time and
\* time.Duration.
\* A type of the universe scope (error) has no package: Pkg() is nil and
\* Pkg().Path() dereferences it, which panics; the panic is recorded as
\* ptype "panic" and ends the conversion like an error.
convertNamed(g, typ) ==
    IF typ.pkg = <<>> THEN Conv(g, "panic", "0", <<>>, TRUE)
    ELSE namedCase(g, [g EXCEPT !.usedImports = @ \cup {typ.pkg}], typ,
                   qualifiedTypeName(g, typ.name, typ.pkg))

\* The slice case once the element type has been converted to r.
sliceCase(r) ==
    IF r.err THEN Conv(r.g, "0", "0", <<>>, TRUE)
    ELSE IF r.ptype = "0" THEN Conv(r.g, "0", "0", <<>>, FALSE)
    ELSE Conv(r.g, r.ptype, "LABEL_REPEATED", r.tname, FALSE)

RECURSIVE convertType(_, _)
convertType(g, typ) ==
    CASE typ.k = "Chan" -> convertType(g, typ.elem[1])
      [] typ.k = "Basic" ->
            IF typ.kind \in BasicKinds
              THEN Conv(g, BasicProto(typ.kind), "LABEL_OPTIONAL", <<>>, FALSE)
              ELSE Conv(g, "0", "0", <<>>, FALSE)
      [] typ.k = "Named" ->
            IF typ = TimeTime THEN
                Conv(addProtoDep(g, TimestampProto), "TYPE_MESSAGE", "LABEL_OPTIONAL",
                     <<".google.protobuf.Timestamp">>, FALSE)
            ELSE IF typ = TimeDuration THEN
                Conv(addProtoDep(g, DurationProto), "TYPE_MESSAGE", "LABEL_OPTIONAL",
                     <<".google.protobuf.Duration">>, FALSE)
            ELSE convertNamed(g, typ)
      [] typ.k = "Slice" ->
            IF typ.elem[1].k = "Basic" /\ typ.elem[1].kind = "byte"
              THEN Conv(g, "TYPE_BYTES", "LABEL_OPTIONAL", <<>>, FALSE)
              ELSE sliceCase(convertType(g, typ.elem[1]))
      [] OTHER -> Conv(g, "0", "0", <<>>, FALSE)

(***************************************************************************)
(* Option tags.  A tag is a record [Type, Method, Path, Body]; the last    *)
(* three are the keys of an http.Match literal ("" when the key is        *)
(* absent).  The option records keep the tags they were read from.         *)
(***************************************************************************)
MessageTagTypes ==
    { "github.com/gunk/opt/message.MessageSetWireFormat",
      "github.com/gunk/opt/message.NoStandardDescriptorAccessor",
      "github.com/gunk/opt/message.Deprecated",
      "github.com/gunk/opt/openapiv2.Schema" }
FieldTagTypes ==
    { "github.com/gunk/opt/field.Packed", "github.com/gunk/opt/field.Lazy",
      "github.com/gunk/opt/field.Deprecated", "github.com/gunk/opt/field/cc.Type",
      "github.com/gunk/opt/field/js.Type", "github.com/gunk/opt/openapiv2.Schema" }
ServiceTagTypes == { "github.com/gunk/opt/service.Deprecated" }
EnumTagTypes == { "github.com/gunk/opt/enum.AllowAlias", "github.com/gunk/opt/enum.Deprecated" }
EnumValueTagTypes == { "github.com/gunk/opt/enumvalues.Deprecated" }
FileTagTypes ==
    { "github.com/gunk/opt/file.OptimizeFor", "github.com/gunk/opt/file.Deprecated",
      "github.com/gunk/opt/file/java.Package", "github.com/gunk/opt/file/java.OuterClassname",
      "github.com/gunk/opt/file/java.MultipleFiles", "github.com/gunk/opt/file/java.StringCheckUtf8",
      "github.com/gunk/opt/file/java.GenericServices", "github.com/gunk/opt/file/swift.Prefix",
      "github.com/gunk/opt/file/ruby.Package", "github.com/gunk/opt/file/csharp.Namespace",
      "github.com/gunk/opt/file/objc.ClassPrefix", "github.com/gunk/opt/file/php.Namespace",
      "github.com/gunk/opt/file/php.ClassPrefix", "github.com/gunk/opt/file/php.MetadataNamespace",
      "github.com/gunk/opt/file/php.GenericServices", "github.com/gunk/opt/openapiv2.Swagger" }

\* The option readers that only dispatch on the tag's type: an error for a
\* tag outside the reader's set.
OptionsOf(tags, known) ==
    [o |-> tags, err |-> \E i \in 1..Len(tags) : tags[i].Type \notin known]

messageOptions(tags) == OptionsOf(tags, MessageTagTypes)
fieldOptions(tags) == OptionsOf(tags, FieldTagTypes)
serviceOptions(tags) == OptionsOf(tags, ServiceTagTypes)
enumOptions(tags) == OptionsOf(tags, EnumTagTypes)
enumValueOptions(tags) == OptionsOf(tags, EnumValueTagTypes)
\* fileOptions reads the tags of every source file of the package.
fileOptions(gpkg) == OptionsOf(gpkg.FileTags, FileTagTypes)

HttpVerbs == { "GET", "POST", "DELETE", "PUT", "PATCH" }

NoRule == [Pattern |-> <<>>, Body |-> "", AdditionalBindings |-> <<>>]

\* What methodOptions returns.
MethodOpts(g, tags, rule, e) == [g |-> g, o |-> [tags |-> tags, http |-> rule], err |-> e]

\* The rule of a tag read without its Method key.
HttpRuleGet(t) ==
    [Pattern |-> <<"GET", t.Path>>, Body |-> t.Body, AdditionalBindings |-> <<>>]

\* The rule of one http.Match tag.
HttpRule(t) ==
    [Pattern |-> <<IF t.Method = "" THEN "GET" ELSE t.Method, t.Path>>, Body |-> t.Body,
     AdditionalBindings |-> <<>>]

\* methodOptions: the tags are read in order; the first http.Match makes
\* the rule, each later one is appended to its AdditionalBindings.
RECURSIVE methodOptionsFrom(_, _, _, _)
methodOptionsFrom(g, tags, i, rule) ==
    IF i > Len(tags) THEN
        IF rule # NoRule
          THEN MethodOpts(addProtoDep(g, AnnotationsProto), tags, rule, FALSE)
          ELSE MethodOpts(g, tags, rule, FALSE)
    ELSE
      CASE tags[i].Type \in { "github.com/gunk/opt/method.Deprecated",
                              "github.com/gunk/opt/method.IdempotencyLevel" } ->
                methodOptionsFrom(g, tags, i + 1, rule)
        [] tags[i].Type = "github.com/gunk/opt/http.Match" ->
                IF HttpRule(tags[i]).Pattern[1] \notin HttpVerbs
                  THEN MethodOpts(g, tags, NoRule, TRUE)
                ELSE IF rule = NoRule
                  THEN methodOptionsFrom(g, tags, i + 1, HttpRule(tags[i]))
                ELSE methodOptionsFrom(g, tags, i + 1,
                        [rule EXCEPT !.AdditionalBindings = Append(@, HttpRule(tags[i]))])
        [] tags[i].Type = "github.com/gunk/opt/openapiv2.Operation" ->
                methodOptionsFrom(addProtoDep(g, OpenapiProto), tags, i + 1, rule)
        [] OTHER -> MethodOpts(g, tags, NoRule, TRUE)

methodOptions(g, method) == methodOptionsFrom(g, method.Tags, 1, NoRule)

(***************************************************************************)
(* addDoc: a non-empty doc comment becomes a source-code-info location.    *)
(* A comment is modelled by its one line of text; the path elements are    *)
(* named instead of numbered.                                              *)
(***************************************************************************)
addDoc(g, text, path) ==
    IF text = "" THEN g
    ELSE [g EXCEPT !.allProto[g.pfile].SourceCodeInfo =
            Append(@, [Path |-> path, LeadingComments |-> " " \o text])]

(***************************************************************************)
(* convertMap, convertMessage                                              *)
(***************************************************************************)
\* The nil *DescriptorProto.
NilDescriptor == [Name |-> "<nil>", Options |-> <<>>, Field |-> <<>>, NestedType |-> <<>>]

FieldProto(name, number, type, label, tname, opts) ==
    [Name |-> name, Number |-> number, Type |-> type, Label |-> label,
     TypeName |-> tname, Options |-> opts]

\* What convertMap returns, with the Generator it leaves.
MapConv(g, tname, nested, e) == [g |-> g, tname |-> tname, nested |-> nested, err |-> e]

\* convertMap once the element type has been converted.
mapElemCase(typeName, mapName, key, elem) ==
    IF elem.err THEN MapConv(elem.g, <<>>, NilDescriptor, TRUE)
    ELSE IF elem.ptype = "0" THEN MapConv(elem.g, <<>>, NilDescriptor, FALSE)
    ELSE MapConv(elem.g, typeName,
            [Name |-> mapName, Options |-> <<"MapEntry">>,
             Field |-> << FieldProto("key", "1", key.ptype, "LABEL_OPTIONAL", key.tname, <<>>),
                          FieldProto("value", "2", elem.ptype, "LABEL_OPTIONAL", elem.tname, <<>>) >>,
             NestedType |-> <<>>],
            FALSE)

\* convertMap once the key type has been converted.
mapKeyCase(typeName, mapName, mapTyp, key) ==
    IF key.err THEN MapConv(key.g, <<>>, NilDescriptor, TRUE)
    ELSE IF key.ptype = "0" THEN MapConv(key.g, <<>>, NilDescriptor, FALSE)
    ELSE mapElemCase(typeName, mapName, key, convertType(key.g, mapTyp.elem[2]))

convertMap(g, parentName, fieldName, mapTyp) ==
    mapKeyCase(qualifiedTypeName(g, parentName \o "." \o fieldName \o "Entry", <<>>).name,
               fieldName \o "Entry", mapTyp, convertType(g, mapTyp.elem[1]))

\* protoNumber: the number of the pb key of a struct tag; a tag is
\* modelled by the text of its pb key, "" when it has none.
protoNumber(tag) == [num |-> tag[1], err |-> tag[1] = ""]

\* The type, label, type name and nested type of a field: of a map field
\* from what convertMap returned, of any other from what convertType did.
FieldOfMap(m) ==
    [g |-> m.g, ptype |-> "TYPE_MESSAGE", plabel |-> "LABEL_REPEATED", tname |-> m.tname,
     nested |-> <<m.nested>>, err |-> m.err]
FieldOfType(c) ==
    [g |-> c.g, ptype |-> c.ptype, plabel |-> c.plabel, tname |-> c.tname,
     nested |-> <<>>, err |-> c.err]

fieldType(g, tspec, field) ==
    IF field.Type.k = "Map"
      THEN FieldOfMap(convertMap(g, tspec.Name, field.Names[1], field.Type))
      ELSE FieldOfType(convertType(g, field.Type))

\* The loop of convertMessage over the struct's fields, from field i on;
\* fieldRest is the body of the loop once the field's type is converted.
RECURSIVE convertFields(_, _, _, _)
fieldRest(tspec, i, msg, field, c) ==
    IF c.err \/ c.ptype = "0" \/ field.Tag = <<>> \/ protoNumber(field.Tag).err
            \/ fieldOptions(field.Tags).err
      THEN [g |-> c.g, msg |-> msg, err |-> TRUE]
      ELSE convertFields(c.g, tspec, i + 1,
              [msg EXCEPT !.NestedType = @ \o c.nested,
                          !.Field = Append(@,
                              FieldProto(field.Names[1], protoNumber(field.Tag).num, c.ptype,
                                         c.plabel, c.tname, fieldOptions(field.Tags).o))])

convertFields(g, tspec, i, msg) ==
    IF i > Len(tspec.Fields) THEN [g |-> g, msg |-> msg, err |-> FALSE]
    ELSE IF Len(tspec.Fields[i].Names) # 1 THEN [g |-> g, msg |-> msg, err |-> TRUE]
    ELSE fieldRest(tspec, i, msg, tspec.Fields[i],
            fieldType(addDoc(g, tspec.Fields[i].Doc,
                             <<"message", ToString(g.messageIndex), "field", ToString(i - 1)>>),
                      tspec, tspec.Fields[i]))

\* convertMessage after the loop over the fields.
messageDone(r) ==
    IF r.err THEN [g |-> r.g, msg |-> NilDescriptor, err |-> TRUE]
    ELSE [g |-> [r.g EXCEPT !.messageIndex = @ + 1], msg |-> r.msg, err |-> FALSE]

\* convertMessage after the doc comment has been added.
messageBody(gd, tspec, mo) ==
    IF mo.err THEN [g |-> gd, msg |-> NilDescriptor, err |-> TRUE]
    ELSE messageDone(convertFields(gd, tspec, 1,
            [Name |-> tspec.Name, Options |-> mo.o, Field |-> <<>>, NestedType |-> <<>>]))

convertMessage(g, tspec) ==
    messageBody(addDoc(g, tspec.Doc, <<"message", ToString(g.messageIndex)>>), tspec,
                messageOptions(tspec.Tags))

(***************************************************************************)
(* convertParameter, convertService                                        *)
(***************************************************************************)
\* What convertParameter returns; the streaming flag is a *bool: "nil",
\* "false" or "true".
ParamConv(g, type, stream, e) == [g |-> g, type |-> type, stream |-> stream, err |-> e]

\* convertParameter without the test of the label.
paramCaseRepeated(param, c) ==
    IF c.err \/ c.tname = <<>>
      THEN ParamConv(c.g, <<>>, "nil", TRUE)
      ELSE ParamConv(c.g, c.tname, IF param.k = "Chan" THEN "true" ELSE "false", FALSE)

\* convertParameter once the one parameter's type has been converted.
paramCase(param, c) ==
    IF c.err \/ c.tname = <<>> \/ c.plabel = "LABEL_REPEATED"
      THEN ParamConv(c.g, <<>>, "nil", TRUE)
      ELSE ParamConv(c.g, c.tname, IF param.k = "Chan" THEN "true" ELSE "false", FALSE)

convertParameter(g, tuple) ==
    IF Len(tuple) = 0
      THEN ParamConv(addProtoDep(g, EmptyProto), <<".google.protobuf.Empty">>, "nil", FALSE)
    ELSE IF Len(tuple) > 1 THEN ParamConv(g, <<>>, "nil", TRUE)
    ELSE paramCase(tuple[1], convertType(g, tuple[1]))

\* The loop of convertService over the interface's methods, from method i
\* on; methodOut, methodIn and methodRest are the body of the loop after
\* the results, the parameters and the options have been converted.
RECURSIVE convertMethods(_, _, _, _)
methodOut(tspec, i, srv, mo, in, out) ==
    IF out.err THEN [g |-> out.g, srv |-> srv, err |-> TRUE]
    ELSE convertMethods(out.g, tspec, i + 1,
            [srv EXCEPT !.Method = Append(@,
                [Name |-> tspec.Methods[i].Names[1], Options |-> mo.o,
                 InputType |-> in.type, ClientStreaming |-> in.stream,
                 OutputType |-> out.type, ServerStreaming |-> out.stream])])

methodIn(tspec, i, srv, mo, in) ==
    IF in.err THEN [g |-> in.g, srv |-> srv, err |-> TRUE]
    ELSE methodOut(tspec, i, srv, mo, in, convertParameter(in.g, tspec.Methods[i].Results))

methodRest(tspec, i, srv, mo) ==
    IF mo.err THEN [g |-> mo.g, srv |-> srv, err |-> TRUE]
    ELSE methodIn(tspec, i, srv, mo, convertParameter(mo.g, tspec.Methods[i].Params))

convertMethods(g, tspec, i, srv) ==
    IF i > Len(tspec.Methods) THEN [g |-> g, srv |-> srv, err |-> FALSE]
    ELSE IF Len(tspec.Methods[i].Names) # 1 THEN [g |-> g, srv |-> srv, err |-> TRUE]
    ELSE methodRest(tspec, i, srv,
            methodOptions(addDoc(g, tspec.Methods[i].Doc,
                                 <<"service", ToString(g.serviceIndex), "method", ToString(i - 1)>>),
                          tspec.Methods[i]))

NilService == [Name |-> "<nil>", Options |-> <<>>, Method |-> <<>>]

\* convertService after the loop over the methods.
serviceDone(r) ==
    IF r.err THEN [g |-> r.g, srv |-> NilService, err |-> TRUE]
    ELSE [g |-> [r.g EXCEPT !.serviceIndex = @ + 1], srv |-> r.srv, err |-> FALSE]

\* convertService after the service options have been read.
serviceBody(g, tspec, so) ==
    IF so.err THEN [g |-> g, srv |-> NilService, err |-> TRUE]
    ELSE serviceDone(convertMethods(g, tspec, 1,
            [Name |-> tspec.Name, Options |-> so.o, Method |-> <<>>]))

convertService(g, tspec) == serviceBody(g, tspec, serviceOptions(tspec.Tags))

(***************************************************************************)
(* convertEnum                                                             *)
(***************************************************************************)
\* int32(ival).  A constant's int64 value is modelled by its two words,
\* [hi, lo] standing for hi * 2^32 + lo with lo in the range of int32 (TLC's
\* integers are no wider); the conversion keeps the low word.
Int32(v) == v.lo

NilEnum == [Name |-> "<nil>", Options |-> <<>>, Value |-> <<>>]

\* The doc text of a value spec as convertEnum hands it to addDoc.
enumDocText(tspec, vs) ==
    IF vs.Doc = "" THEN ""
    ELSE IF vs.DocNamesValue THEN tspec.Name \o "_" \o vs.Doc
    ELSE vs.Doc

\* The specs of one CONST declaration, from spec i on; enumValue is the
\* body of the loop after the doc comment has been added.
RECURSIVE convertEnumSpecs(_, _, _, _, _)
enumValue(gd, tspec, specs, i, enum) ==
    IF enumValueOptions(specs[i].Tags).err THEN [g |-> gd, enum |-> enum, err |-> TRUE]
    ELSE convertEnumSpecs(gd, tspec, specs, i + 1,
            [enum EXCEPT !.Value = Append(@,
                [Name |-> specs[i].Names[1], Number |-> Int32(specs[i].Val),
                 Options |-> enumValueOptions(specs[i].Tags).o])])

convertEnumSpecs(g, tspec, specs, i, enum) ==
    IF i > Len(specs) THEN [g |-> g, enum |-> enum, err |-> FALSE]
    ELSE IF Len(specs[i].Names) # 1 THEN [g |-> g, enum |-> enum, err |-> TRUE]
    ELSE IF specs[i].Type # tspec.Name THEN convertEnumSpecs(g, tspec, specs, i + 1, enum)
    ELSE enumValue(addDoc(g, enumDocText(tspec, specs[i]),
                          <<"enum", ToString(g.enumIndex), "value", ToString(i - 1)>>),
                   tspec, specs, i, enum)

\* The declarations of the current source file, from declaration d on.
RECURSIVE convertEnumDecls(_, _, _, _, _)
enumDecl(tspec, decls, d, r) ==
    IF r.err THEN r ELSE convertEnumDecls(r.g, tspec, decls, d + 1, r.enum)

convertEnumDecls(g, tspec, decls, d, enum) ==
    IF d > Len(decls) THEN [g |-> g, enum |-> enum, err |-> FALSE]
    ELSE IF decls[d].Tok # "CONST" THEN convertEnumDecls(g, tspec, decls, d + 1, enum)
    ELSE enumDecl(tspec, decls, d, convertEnumSpecs(g, tspec, decls[d].Specs, 1, enum))

\* convertEnum after the loop over the declarations.
enumDone(r) ==
    IF r.err THEN [g |-> r.g, enum |-> NilEnum, err |-> TRUE]
    ELSE [g |-> [r.g EXCEPT !.enumIndex = @ + 1],
          enum |-> IF Len(r.enum.Value) = 0 THEN NilEnum ELSE r.enum,
          err |-> FALSE]

\* convertEnum after the doc comment has been added.
enumBody(gd, tspec, gfile, eo) ==
    IF eo.err THEN [g |-> gd, enum |-> NilEnum, err |-> TRUE]
    ELSE enumDone(convertEnumDecls(gd, tspec, gfile.Decls, 1,
            [Name |-> tspec.Name, Options |-> eo.o, Value |-> <<>>]))

\* gfile is g.gfile, the source file being translated.
convertEnum(g, tspec, gfile) ==
    enumBody(addDoc(g, tspec.Doc, <<"enum", ToString(g.enumIndex)>>), tspec, gfile,
             enumOptions(tspec.Tags))

(***************************************************************************)
(* translateDecl, appendFile                                               *)
(***************************************************************************)
\* The type specs of one TYPE declaration, from spec i on; specMessage,
\* specService and specEnum are the cases of the switch after the
\* conversion has returned r.
RECURSIVE translateSpecs(_, _, _, _)
specMessage(specs, i, gfile, r) ==
    IF r.err THEN [g |-> r.g, err |-> TRUE]
    ELSE translateSpecs([r.g EXCEPT !.allProto[r.g.pfile].MessageType = Append(@, r.msg)],
                        specs, i + 1, gfile)

specService(specs, i, gfile, r) ==
    IF r.err THEN [g |-> r.g, err |-> TRUE]
    ELSE translateSpecs([r.g EXCEPT !.allProto[r.g.pfile].Service = Append(@, r.srv)],
                        specs, i + 1, gfile)

specEnum(specs, i, gfile, r) ==
    IF r.err THEN [g |-> r.g, err |-> TRUE]
    ELSE IF r.enum = NilEnum THEN translateSpecs(r.g, specs, i + 1, gfile)
    ELSE translateSpecs([r.g EXCEPT !.allProto[r.g.pfile].EnumType = Append(@, r.enum)],
                        specs, i + 1, gfile)

translateSpecs(g, specs, i, gfile) ==
    IF i > Len(specs) THEN [g |-> g, err |-> FALSE]
    ELSE
      CASE specs[i].Kind = "struct" -> specMessage(specs, i, gfile, convertMessage(g, specs[i]))
        [] specs[i].Kind = "interface" -> specService(specs, i, gfile, convertService(g, specs[i]))
        [] specs[i].Kind = "ident" -> specEnum(specs, i, gfile, convertEnum(g, specs[i], gfile))
        [] OTHER -> [g |-> g, err |-> TRUE]

\* Tok is the token of a GenDecl; "FUNC" stands for a declaration that is
\* no GenDecl.
translateDecl(g, decl, gfile) ==
    CASE decl.Tok = "TYPE" -> translateSpecs(g, decl.Specs, 1, gfile)
      [] decl.Tok \in {"CONST", "IMPORT"} -> [g |-> g, err |-> FALSE]
      [] OTHER -> [g |-> g, err |-> TRUE]

\* The loop of appendFile over the declarations, from declaration d on.
RECURSIVE translateDecls(_, _, _)
declDone(file, d, r) == IF r.err THEN r ELSE translateDecls(r.g, file, d + 1)

translateDecls(g, file, d) ==
    IF d > Len(file.Decls) THEN [g |-> g, err |-> FALSE]
    ELSE declDone(file, d, translateDecl(g, file.Decls[d], file))

appendFile(g, fpath, file) ==
    IF fpath \in DOMAIN g.allProto THEN [g |-> g, err |-> FALSE]
    ELSE translateDecls(addDoc(g, file.Doc, <<"package">>), file, 1)

(***************************************************************************)
(* Generator (NewGenerator) and recordPkgs                                 *)
(***************************************************************************)
EmptyMap == [x \in {} |-> x]

\* gunkPkgs is modelled by its key set (the values are the loader's
\* packages, GunkPackage), pfile by the key of the file it points to.
NewGenerator ==
    [curPkg |-> <<>>, pfile |-> <<>>, usedImports |-> {}, gunkPkgs |-> {},
     allProto |-> EmptyMap, messageIndex |-> 0, serviceIndex |-> 0, enumIndex |-> 0]

\* The packages recordPkgs records for one package: itself and, by
\* recursion, the packages of its Imports map.
RECURSIVE recordPkg(_)
recordPkg(path) ==
    {path} \cup UNION { recordPkg(q) : q \in GunkPackage(path).Imports }

recordPkgs(g, pkgs) ==
    [g EXCEPT !.gunkPkgs = @ \cup UNION { recordPkg(pkgs[n]) : n \in 1..Len(pkgs) }]

(***************************************************************************)
(* translatePkg                                                            *)
(***************************************************************************)
\* The imports of all source files of a package, in the order translatePkg
\* visits them.
RECURSIVE AllImports(_, _)
AllImports(syntax, n) ==
    IF n > Len(syntax) THEN <<>>
    ELSE syntax[n].Imports \o AllImports(syntax, n + 1)

\* Whether the loop over the imports skips import imp.
skipImport(g, imp) ==
    \/ imp.Name = "_"
    \/ imp.Path \notin g.gunkPkgs
    \/ Len(GunkPackage(imp.Path).GunkNames) = 0
    \/ imp.Path \notin g.usedImports

\* The loop over the imports after the declaration walk.
RECURSIVE importStep(_, _, _, _)
importStep(g, imports, n, leftToTranslate) ==
    IF n > Len(imports) THEN [g |-> g, left |-> leftToTranslate]
    ELSE IF skipImport(g, imports[n]) THEN importStep(g, imports, n + 1, leftToTranslate)
    ELSE importStep(addProtoDep(g, unifiedProtoFile(imports[n].Path)), imports, n + 1,
                    IF unifiedProtoFile(imports[n].Path) \notin DOMAIN g.allProto
                      THEN Append(leftToTranslate, imports[n].Path)
                      ELSE leftToTranslate)

\* The loop over the source files of the package, from file n on.
RECURSIVE appendFiles(_, _, _)
fileDone(gpkg, n, r) == IF r.err THEN r ELSE appendFiles(r.g, gpkg, n + 1)

appendFiles(g, gpkg, n) ==
    IF n > Len(gpkg.GunkNames) THEN [g |-> g, err |-> FALSE]
    ELSE fileDone(gpkg, n, appendFile(g, gpkg.GunkNames[n], gpkg.GunkSyntax[n]))

\* The Go package path written to the file's options.
protoGoPkgPath(pkgPath) ==
    IF pkgPath = pCLA THEN <<"fake-path.com", "/", "command-line-arguments">> ELSE pkgPath

\* The descriptor file translatePkg starts a package with.
NewFile(pfilename, gpkg, pkgPath, fo) ==
    [Syntax |-> "proto3", Name |-> pfilename, Package |-> gpkg.ProtoName,
     Options |-> [GoPackage |-> protoGoPkgPath(pkgPath) \o <<";", gpkg.Name>>, tags |-> fo],
     Dependency |-> <<>>, MessageType |-> <<>>, Service |-> <<>>, EnumType |-> <<>>,
     SourceCodeInfo |-> <<>>]

\* What one call of translatePkg up to its loop of recursive calls leaves:
\* the Generator, whether it failed, whether it walked the package's
\* declarations, and the packages left to translate.
Translated(g, e, walked, left) == [g |-> g, err |-> e, walked |-> walked, left |-> left]

\* translatePkg after the loop over the imports.
translateImported(im) == Translated(im.g, FALSE, TRUE, im.left)

\* translatePkg after the loop over the source files.
translateAppended(gpkg, w) ==
    IF w.err THEN Translated(w.g, TRUE, TRUE, <<>>)
    ELSE translateImported(importStep(w.g, AllImports(gpkg.GunkSyntax, 1), 1, <<>>))

\* translatePkg after the file options have been read: the file is
\* registered, the indices are reset, the source files are walked.
translateFile(g1, gpkg, pkgPath, pfilename, fo) ==
    IF fo.err THEN Translated(g1, TRUE, FALSE, <<>>)
    ELSE translateAppended(gpkg,
            appendFiles([g1 EXCEPT !.pfile = pfilename,
                                   !.allProto = (pfilename :> NewFile(pfilename, gpkg, pkgPath, fo.o)) @@ @,
                                   !.messageIndex = 0, !.serviceIndex = 0, !.enumIndex = 0],
                        gpkg, 1))

\* translatePkg for a known package that is not translated yet.
translateNew(g, gpkg, pkgPath) ==
    translateFile([g EXCEPT !.curPkg = pkgPath, !.usedImports = {}], gpkg, pkgPath,
                  unifiedProtoFile(gpkg.PkgPath), fileOptions(gpkg))

\* translatePkg without the test that returns when the package's file is
\* in the table already.
translatePkgAgain(g, pkgPath) ==
    IF pkgPath \notin g.gunkPkgs THEN Translated(g, TRUE, FALSE, <<>>)
    ELSE translateNew(g, GunkPackage(pkgPath), pkgPath)

translatePkg(g, pkgPath) ==
    IF pkgPath \notin g.gunkPkgs THEN Translated(g, TRUE, FALSE, <<>>)
    ELSE IF unifiedProtoFile(GunkPackage(pkgPath).PkgPath) \in DOMAIN g.allProto
      THEN Translated(g, FALSE, FALSE, <<>>)
    ELSE translateNew(g, GunkPackage(pkgPath), pkgPath)

(***************************************************************************)
(* topologicalSort, requestForPkg                                          *)
(***************************************************************************)
\* The first file at index n or later that is not in the result yet,
\* whatever it depends on.
RECURSIVE fileLoopAny(_, _, _)
fileLoopAny(pfiles, previous, n) ==
    IF n > Len(pfiles) THEN 0
    ELSE IF pfiles[n].Name \in previous THEN fileLoopAny(pfiles, previous, n + 1)
    ELSE n

\* The first file at index n or later that is not in the result yet and
\* whose dependencies all are; 0 when the pass finds none.
RECURSIVE fileLoop(_, _, _)
fileLoop(pfiles, previous, n) ==
    IF n > Len(pfiles) THEN 0
    ELSE IF pfiles[n].Name \in previous THEN fileLoop(pfiles, previous, n + 1)
    ELSE IF \E d \in 1..Len(pfiles[n].Dependency) : pfiles[n].Dependency[d] \notin previous
      THEN fileLoop(pfiles, previous, n + 1)
    ELSE n

\* The outer loop that gives up without a panic when a pass adds no file.
RECURSIVE addLoopQuiet(_, _, _)
addLoopQuiet(pfiles, previous, result) ==
    IF Len(result) >= Len(pfiles) \/ fileLoop(pfiles, previous, 1) = 0
      THEN [result |-> result, panic |-> FALSE]
      ELSE addLoopQuiet(pfiles, previous \cup {pfiles[fileLoop(pfiles, previous, 1)].Name},
                        Append(result, pfiles[fileLoop(pfiles, previous, 1)]))

\* The outer loop; addStep is its body once the pass over the files has
\* stopped at file n (0: the pass added nothing, the function panics).
RECURSIVE addLoop(_, _, _)
addStep(pfiles, previous, result, n) ==
    IF n = 0 THEN [result |-> result, panic |-> TRUE]
    ELSE addLoop(pfiles, previous \cup {pfiles[n].Name}, Append(result, pfiles[n]))

addLoop(pfiles, previous, result) ==
    IF Len(result) >= Len(pfiles) THEN [result |-> result, panic |-> FALSE]
    ELSE addStep(pfiles, previous, result, fileLoop(pfiles, previous, 1))

topologicalSort(pfiles) == addLoop(pfiles, {}, <<>>)

\* Parameter is <<>> for a nil pointer and <<s>> for a pointer to s.
NoReq == [FileToGenerate |-> <<>>, ProtoFile |-> <<>>, Parameter |-> <<>>]

\* The request made of the sorted files.  ProtoFile holds pointers into
\* the table: it is modelled by the names of the files.
requestOf(pkgPath, sorted) ==
    [req |-> [FileToGenerate |-> <<unifiedProtoFile(pkgPath)>>,
              ProtoFile |-> [n \in 1..Len(sorted.result) |-> sorted.result[n].Name],
              Parameter |-> <<>>],
     panic |-> sorted.panic]

\* order is the order in which the range over g.allProto delivers the
\* table's entries.
requestForPkg(g, pkgPath, order) ==
    requestOf(pkgPath, topologicalSort([n \in 1..Len(order) |-> g.allProto[order[n]]]))

(***************************************************************************)
(* loadProtoDeps and the proto resolver (loader.ProtoLoader)               *)
(***************************************************************************)
HttpProto == <<"google/api/http.proto">>
DescriptorProto == <<"google/protobuf/descriptor.proto">>

\* The imports of the proto files outside the Gunk packages.
ExtDependency(name) ==
    CASE name = AnnotationsProto -> <<HttpProto, DescriptorProto>>
      [] name = OpenapiProto -> <<DescriptorProto>>
      [] OTHER -> <<>>

ExtFile(name) ==
    [Syntax |-> "proto3", Name |-> name, Package |-> "ext",
     Options |-> [GoPackage |-> <<>>, tags |-> <<>>],
     Dependency |-> ExtDependency(name), MessageType |-> <<>>, Service |-> <<>>,
     EnumType |-> <<>>, SourceCodeInfo |-> <<>>]

\* The names a set of proto files reaches through imports.
RECURSIVE ImportClosure(_)
ImportClosure(names) ==
    IF UNION { Range(ExtDependency(n)) : n \in names } \subseteq names THEN names
    ELSE ImportClosure(names \cup UNION { Range(ExtDependency(n)) : n \in names })

\* The list loadProtoDeps asks of the resolver: the dependencies of the
\* table's files that are no keys of the table.
MissingDeps(g) ==
    { dep \in UNION { Range(g.allProto[k].Dependency) : k \in DOMAIN g.allProto } :
        dep \notin DOMAIN g.allProto }

\* LoadProto: the resolver runs protoc over the requested names and
\* returns their descriptors together with those of the files they import.
LoadProto(list) == { ExtFile(n) : n \in ImportClosure(list) }

\* loadProtoDeps that stores nothing of what the resolver returned.
loadProtoDepsDropped(g, loaded) == g

\* loadProtoDeps after a successful LoadProto: every returned file is
\* stored under its name.  loaded is the set the resolver returned.
loadProtoDeps(g, loaded) ==
    [g EXCEPT !.allProto =
        [k \in DOMAIN @ \cup { f.Name : f \in loaded } |->
            IF \E f \in loaded : f.Name = k
              THEN CHOOSE f \in loaded : f.Name = k
              ELSE @[k]]]

(***************************************************************************)
(* config.Generator: one configured generator.                             *)
(*   Command, ProtocGen   the plugin binary / the protoc keyword           *)
(*   Protoc               IsProtoc()                                       *)
(*   PluginVersion        the pinned version, "" when none                 *)
(*   Params               ParamString()                                    *)
(*   Out                  the configured output directory, <<>> when none  *)
(*   Postproc             HasPostproc()                                    *)
(*   Known                downloader.Has(Code())                           *)
(***************************************************************************)
Generator(cmd, protoc, version, params, out, postproc) ==
    [Command |-> cmd, ProtocGen |-> cmd, Protoc |-> protoc, PluginVersion |-> version,
     Params |-> params, Out |-> out, Postproc |-> postproc, Known |-> cmd # "odd"]

\* OutPath: the configured output directory, the package's directory
\* when none is configured.
OutPath(gn, dir) == IF gn.Out = <<>> THEN dir ELSE gn.Out

(***************************************************************************)
(* generatePlugin                                                          *)
(***************************************************************************)
FakePath == <<"fake-path.com", "/", "command-line-arguments", "/">>

\* The variables of the search for the package of a returned file.
Dest(ok, matching, gpkg, dir) == [ok |-> ok, matching |-> matching, gpkg |-> gpkg, dir |-> dir]

\* The loop over g.gunkPkgs that takes the first known import path that
\* is a prefix of pkgPath.
RECURSIVE prefixLoopFirst(_, _, _, _, _)
prefixLoopFirst(gn, pkgPath, order, n, m) ==
    IF n > Len(order) THEN m
    ELSE IF HasPrefix(pkgPath, order[n])
      THEN Dest(TRUE, order[n], order[n],
                OutPath(gn, GunkPackage(order[n]).Dir) \o TrimPrefix(pkgPath, order[n]))
      ELSE prefixLoopFirst(gn, pkgPath, order, n + 1, m)

\* The loop over g.gunkPkgs that looks for the longest known import path
\* that is a prefix of pkgPath; order is the order in which the range
\* over the map delivers the keys, m the loop's variables.
RECURSIVE prefixLoop(_, _, _, _, _)
prefixLoop(gn, pkgPath, order, n, m) ==
    IF n > Len(order) THEN m
    ELSE IF HasPrefix(pkgPath, order[n]) /\ Len(order[n]) > Len(m.matching)
      THEN prefixLoop(gn, pkgPath, order, n + 1,
               Dest(TRUE, order[n], order[n],
                    OutPath(gn, GunkPackage(order[n]).Dir) \o TrimPrefix(pkgPath, order[n])))
      ELSE prefixLoop(gn, pkgPath, order, n + 1, m)

\* After the loop: a file no known path is a prefix of belongs to the
\* main package.
prefixCase(gn, mainPkgPath, m) ==
    IF m.matching = <<>>
      THEN Dest(m.ok, <<>>, mainPkgPath, OutPath(gn, GunkPackage(mainPkgPath).Dir))
      ELSE m

\* The package and the directory of a returned file whose directory part
\* is pkgPath.
destination(g, gn, mainPkgPath, pkgPath, order) ==
    IF pkgPath \in g.gunkPkgs
      THEN Dest(TRUE, pkgPath, pkgPath, OutPath(gn, GunkPackage(pkgPath).Dir))
      ELSE prefixCase(gn, mainPkgPath,
                      prefixLoop(gn, pkgPath, order, 1, Dest(FALSE, <<>>, <<>>, <<>>)))

\* The path the file is written to, the fake path removed.
outPathOf(rfName, r) ==
    TrimPrefix(IF ~r.ok THEN Join(r.dir, rfName) ELSE Join(r.dir, SplitFile(rfName)),
               FakePath)

\* Where one returned file goes: the body of the loop over resp.File up to
\* the removal of the fake path.
OutputOf(g, gn, mainPkgPath, rfName, order) ==
    outPathOf(rfName, destination(g, gn, mainPkgPath, Clean(SplitDir(rfName)), order))

\* The loop over resp.File from file n on.  fail = [at, kind] makes the
\* step kind ("postproc", "mkdir", "write") of file at fail; at = 0: none.
\* writeStep is the body of the loop once the file's path is outPath.
RECURSIVE writeFiles(_, _, _, _, _, _, _, _)
writeStep(g, gn, mainPkgPath, names, n, order, fail, out, outPath) ==
    IF fail.at = n /\ (fail.kind # "postproc" \/ gn.Postproc)
                   /\ (fail.kind # "mkdir" \/ SplitDir(outPath) # <<>>)
      THEN [written |-> out, err |-> TRUE]
      ELSE writeFiles(g, gn, mainPkgPath, names, n + 1, order, fail,
               Append(out, [Path |-> outPath, Name |-> names[n], proc |-> 0,
                            Data |-> IF gn.Postproc THEN "postprocessed" ELSE "content"]))

writeFiles(g, gn, mainPkgPath, names, n, order, fail, out) ==
    IF n > Len(names) THEN [written |-> out, err |-> FALSE]
    ELSE writeStep(g, gn, mainPkgPath, names, n, order, fail, out,
                   OutputOf(g, gn, mainPkgPath, names[n], order))

\* The request a plugin reads from its stdin: Parameter is set only to a
\* non-empty string.
pluginRequest(rq, gn) ==
    IF gn.Params # "" THEN [rq EXCEPT !.Parameter = <<gn.Params>>] ELSE rq

\* GeneratePkg's request after a call that worked on the request itself.
requestShared(rq, sent) == sent

\* GeneratePkg's request after generatePlugin(*req, c): the generator is
\* given a copy of the request, and sent, the request it made of the copy,
\* is gone when it returns.
requestCopied(rq, sent) == rq

\* generatePlugin after the response has been read, for main package
\* mainPkgPath.
pluginFiles(g, gn, mainPkgPath, resp, order, fail) ==
    IF mainPkgPath \notin g.gunkPkgs THEN [written |-> <<>>, err |-> TRUE]
    ELSE writeFiles(g, gn, mainPkgPath, resp.File, 1, order, fail, <<>>)

\* generatePlugin once the plugin has been spawned: resp is what the
\* plugin did (exit: its exit status is zero; parse: its output is a
\* CodeGeneratorResponse; Error and File: the response's fields).
generatePlugin(g, rq, gn, resp, order, fail) ==
    IF ~resp.exit \/ ~resp.parse \/ resp.Error # "" THEN [written |-> <<>>, err |-> TRUE]
    ELSE IF Len(rq.FileToGenerate) # 1 THEN [written |-> <<>>, err |-> TRUE]
    ELSE pluginFiles(g, gn, Clean(SplitDir(rq.FileToGenerate[1])), resp, order, fail)

(***************************************************************************)
(* generateProtoc                                                          *)
(***************************************************************************)
\* findPkg: the known package with this path, or one whose path with "."
\* replaced by "/" is this path (no modelled import path holds a ".").
findPkg(g, path) == path \in g.gunkPkgs

\* The descriptor set protoc reads: the request's files, the file to
\* generate as a copy named by its basename.
protocFiles(rq) ==
    [n \in 1..Len(rq.ProtoFile) |->
        IF rq.ProtoFile[n] = rq.FileToGenerate[1]
          THEN SplitFile(rq.FileToGenerate[1])
          ELSE rq.ProtoFile[n]]

\* The loop over the events of the watcher's diff, from event n on.
RECURSIVE postProcessEvents(_, _, _, _, _)
postProcessEvents(gn, events, n, fail, out) ==
    IF n > Len(events) THEN [written |-> out, err |-> FALSE]
    ELSE IF events[n].IsDir THEN postProcessEvents(gn, events, n + 1, fail, out)
    ELSE IF fail.at = n /\ fail.kind \in {"postproc", "write"}
      THEN [written |-> out, err |-> TRUE]
    ELSE postProcessEvents(gn, events, n + 1, fail,
            Append(out, [Path |-> events[n].Path, Name |-> events[n].Path, proc |-> 0,
                         Data |-> IF events[n].ReadErr THEN "postprocessed nothing"
                                  ELSE "postprocessed"]))

\* What generateProtoc did: the Generator it leaves, whether protoc was
\* started, the files written, whether it failed, and the calls made on
\* the watcher d by the time it returns: "nil" (no watcher was made),
\* "new" (dirchanges.New, AddRecursive failed), "watching" (AddRecursive
\* and FilterOps), "diffed" (Diff was called).
Ran(g, spawned, files, e, d) ==
    [g |-> g, spawned |-> spawned, written |-> files, err |-> e, watcher |-> d]

\* generateProtoc after the diff of the watcher.
protocDone(g, r) == Ran(g, TRUE, r.written, r.err, "diffed")

\* The loop over fds.File that renames the file of the table itself.
renameInPlace(g, rq) ==
    [g EXCEPT !.allProto[rq.FileToGenerate[1]].Name = SplitFile(rq.FileToGenerate[1])]

\* The loop over fds.File: fds.File is a copy of the request's slice and
\* the file to generate is copied before the copy is renamed, so the
\* table's file keeps its name (protocFiles is what protoc reads).
renameCopy(g, rq) == g

\* The watcher after `if gen.HasPostproc() { d = dirchanges.New() ... }`
\* has succeeded.
watcherSetUp(gn) == IF gn.Postproc THEN "watching" ELSE "nil"

\* The return on a failure of protoc (log.ExecError): nothing is called
\* on the watcher.
protocFailed(g, gn) == Ran(g, TRUE, <<>>, TRUE, watcherSetUp(gn))

\* generateProtoc after the loop over fds.File: env is what the
\* environment did (watch: the watcher could be set up; exit: protoc's
\* exit status is zero; diff: the diff succeeded; events: the new files
\* and directories).
protocRun(g, rq, gn, env, fail) ==
    IF ~findPkg(g, Clean(SplitDir(rq.FileToGenerate[1]))) THEN Ran(g, FALSE, <<>>, TRUE, "nil")
    ELSE IF gn.Postproc /\ ~env.watch THEN Ran(g, FALSE, <<>>, TRUE, "new")
    ELSE IF ~env.exit THEN protocFailed(g, gn)
    ELSE IF ~gn.Postproc THEN Ran(g, TRUE, <<>>, FALSE, "nil")
    ELSE IF ~env.diff THEN Ran(g, TRUE, <<>>, TRUE, "diffed")
    ELSE protocDone(g, postProcessEvents(gn, env.events, 1, fail, <<>>))

generateProtoc(g, rq, gn, env, fail) ==
    IF Len(rq.FileToGenerate) # 1 THEN Ran(g, FALSE, <<>>, TRUE, "nil")
    ELSE protocRun(renameCopy(g, rq), rq, gn, env, fail)

(***************************************************************************)
(* The inputs explored.                                                    *)
(***************************************************************************)
\* Bounds of the model: the files one plugin response carries, and the
\* events one filesystem diff reports.
MaxRespFiles == 2
MaxEvents == 2

GoPlugin == Generator("go", FALSE, "", "", <<>>, FALSE)
ParamPlugin == Generator("grpc", FALSE, "", "p=1", <<>>, TRUE)
PinnedPlugin == Generator("go", FALSE, "v1", "", <<>>, FALSE)
PinnedOdd == Generator("odd", FALSE, "v1", "", <<>>, FALSE)
Protoc == Generator("java", TRUE, "", "", <<>>, FALSE)
ProtocPostproc == Generator("js", TRUE, "", "", <<>>, TRUE)
ProtocPinned == Generator("java", TRUE, "v1", "", <<>>, FALSE)
OutAbs == Generator("go", FALSE, "", "", <<"/", "o">>, FALSE)
OutRel == Generator("go", FALSE, "", "", <<"o">>, FALSE)
OutDot == Generator("go", FALSE, "", "", <<".">>, FALSE)

GenLists ==
    { <<GoPlugin>>, <<ParamPlugin, GoPlugin>>, <<ProtocPostproc, GoPlugin>>,
      <<Protoc, ProtocPinned>>, <<PinnedPlugin, PinnedOdd>>,
      <<OutAbs>>, <<OutRel>>, <<OutDot>> }

\* Names a plugin may give the files it returns.
NameA == <<"a", "/", "x.go">>
NameAB == <<"a", "/", "b", "/", "x.go">>
NameABC == <<"a", "/", "b", "/", "c", "/", "x.go">>
NameAx == <<"a", "b", "/", "x.go">>
NameZ == <<"z", "/", "x.go">>
NameLocal == <<"x.go">>
NameFake == FakePath \o <<"x.go">>
NameFakeSub == FakePath \o <<"sub", "/", "x.go">>

BaseWorld ==
    [fam |-> "T", ab |-> "none", ac |-> "none", an |-> "none", bc |-> "none",
     ca |-> "none", bad |-> "none", svc |-> "none", pkgs |-> <<pA>>, load |-> "ok",
     entry |-> "Run", dir |-> <<".">>, gens |-> <<GoPlugin>>, names |-> {}]

PkgLists == { <<pA>>, <<pA, pAB>>, <<pC, pA>>, <<pC, pA, pAB>> }

\* Family "T": every import graph over a, a/b and c ...
GraphWorlds ==
    { [BaseWorld EXCEPT !.ab = ab, !.ac = ac, !.bc = bc, !.ca = ca, !.pkgs = pkgs] :
        ab \in {"none", "unused", "blank", "used"},
        ac \in {"none", "unused", "alias", "used", "blankused"},
        bc \in {"none", "unused", "used"},
        ca \in {"none", "used"},
        pkgs \in PkgLists }

\* ... and, over one graph, the declarations that fail, that ask for proto
\* files outside the Gunk packages, and the package without Gunk files.
DeclWorlds ==
    { [BaseWorld EXCEPT !.ab = "used", !.ac = ac, !.bc = "used", !.bad = bad,
                        !.svc = svc, !.an = an, !.pkgs = pkgs, !.entry = entry] :
        ac \in {"none", "unused"},
        bad \in {"none", "a", "b"},
        svc \in {"none", "empty", "http", "time"},
        an \in {"none", "unused", "used"},
        pkgs \in { <<pA>>, <<pAB, pA>> },
        entry \in {"Run", "FileDescriptorSet"} }

\* What the loader can answer.
LoadWorlds ==
    { [BaseWorld EXCEPT !.load = load, !.pkgs = pkgs, !.entry = entry] :
        load \in {"ok", "error", "pkgerrors"},
        pkgs \in { <<>>, <<pA>> },
        entry \in {"Run", "FileDescriptorSet"} }

\* Family "G": the generators configured and the files plugins return,
\* for package a (which uses a/b) ...
GenWorlds ==
    { [BaseWorld EXCEPT !.fam = "G", !.ab = "used", !.gens = gens, !.names = names] :
        gens \in GenLists \cup { <<>> },
        names \in { {NameA, NameAB}, {NameABC, NameAx}, {NameZ, NameLocal}, {NameABC, NameZ} } }

\* ... and for files named on the command line, in directory dir.
ClaWorlds ==
    { [BaseWorld EXCEPT !.fam = "G", !.pkgs = <<pCLA>>, !.dir = dir, !.gens = gens,
                        !.names = {NameFake, NameFakeSub}] :
        dir \in { <<".">>, <<"w">>, <<"/", "w">> },
        gens \in { <<GoPlugin>>, <<OutAbs>>, <<OutRel>>, <<OutDot>> } }

\* Every input, with the packages the loader delivers for it.
Worlds ==
    { w @@ [packages |-> Packages(w)] :
        w \in GraphWorlds \cup DeclWorlds \cup LoadWorlds \cup GenWorlds \cup ClaWorlds }

\* Sequences over S of length at most n.
RECURSIVE SeqsUpTo(_, _)
SeqsUpTo(S, n) ==
    IF n = 0 THEN { <<>> }
    ELSE SeqsUpTo(S, n - 1)
         \cup { Append(q, x) : q \in { t \in SeqsUpTo(S, n - 1) : Len(t) = n - 1 }, x \in S }

\* What a plugin may answer.
Responses ==
    { [exit |-> FALSE, parse |-> FALSE, Error |-> "", File |-> <<>>],
      [exit |-> TRUE, parse |-> FALSE, Error |-> "", File |-> <<>>] }
    \cup { [exit |-> TRUE, parse |-> TRUE, Error |-> e, File |-> f] :
             e \in {"", "failed"}, f \in SeqsUpTo(world.names, MaxRespFiles) }

\* The step of the loop over n returned files that fails, if any.
Failures(n) ==
    { [at |-> 0, kind |-> "none"] }
    \cup { [at |-> k, kind |-> kind] : k \in 1..n, kind \in {"postproc", "mkdir", "write"} }

\* What the filesystem diff may report after protoc has run.
NewFile1 == [Path |-> <<"/", "w", "/", "a", "/", "x.js">>, IsDir |-> FALSE, ReadErr |-> FALSE]
NewFile2 == [Path |-> <<"/", "w", "/", "a", "/", "y.js">>, IsDir |-> FALSE, ReadErr |-> TRUE]
NewDir == [Path |-> <<"/", "w", "/", "a", "/", "d">>, IsDir |-> TRUE, ReadErr |-> FALSE]

ProtocEnvs ==
    { [watch |-> FALSE, exit |-> FALSE, diff |-> FALSE, events |-> <<>>],
      [watch |-> TRUE, exit |-> FALSE, diff |-> FALSE, events |-> <<>>],
      [watch |-> TRUE, exit |-> TRUE, diff |-> FALSE, events |-> <<>>] }
    \cup { [watch |-> TRUE, exit |-> TRUE, diff |-> TRUE, events |-> ev] :
             ev \in SeqsUpTo({NewFile1, NewFile2, NewDir}, MaxEvents) }

(***************************************************************************)
(* Run and FileDescriptorSet                                               *)
(***************************************************************************)
Init ==
    /\ world \in Worlds
    /\ pc = "Load"
    /\ pkgIdx = 1
    /\ genIdx = 1
    /\ gen = NewGenerator
    /\ stack = <<>>
    /\ req = NoReq
    /\ ret = ""
    /\ procs = <<>>
    /\ written = <<>>
    /\ hist = [walks |-> [p \in Loaded |-> 0], calls |-> 0, early |-> FALSE, arg |-> <<>>,
               returned |-> {}, translated |-> 0, loads |-> 0, loadOk |-> FALSE,
               last |-> ""]

\* The entry point returns r.
Return(r) == pc' = "Done" /\ ret' = r

\* g.Load, the checks of its result and recordPkgs.
RunLoad ==
    /\ pc = "Load"
    /\ hist' = [hist EXCEPT !.last = "Load"]
    /\ UNCHANGED <<world, pkgIdx, genIdx, stack, req, procs, written>>
    /\ IF world.load = "error" THEN Return("error loading packages") /\ gen' = gen
       ELSE IF world.entry = "Run" /\ Len(world.pkgs) = 0
         THEN Return("no Gunk packages to generate") /\ gen' = gen
       ELSE IF world.entry = "FileDescriptorSet" /\ Len(world.pkgs) # 1
         THEN Return("can only get filedescriptorset for a single Gunk package") /\ gen' = gen
       ELSE IF world.load = "pkgerrors"
         THEN Return("encountered package loading errors") /\ gen' = gen
       ELSE /\ gen' = recordPkgs(gen, world.pkgs)
            /\ pc' = "Translate"
            /\ ret' = ret

\* What a call translatePkg(pkgPath) with result r leaves in the history.
Walked(r, pkgPath) ==
    [hist EXCEPT !.walks[pkgPath] = IF r.walked THEN @ + 1 ELSE @,
                 !.calls = @ + 1, !.arg = pkgPath, !.early = ~r.err /\ ~r.walked,
                 !.last = "translatePkg"]

\* A call translatePkg(pkgPath) made with the calls of base active: r is
\* what it did up to its loop of recursive calls.
TranslateCall(pkgPath, base, r) ==
    /\ gen' = r.g
    /\ hist' = Walked(r, pkgPath)
    /\ IF r.err THEN Return("unable to translate pkg") /\ stack' = <<>>
       ELSE /\ stack' = Append(base, [pkgPath |-> pkgPath, left |-> r.left])
            /\ UNCHANGED <<pc, ret>>

\* One turn of the loop that translates the requested packages: the
\* package's gunkconfig is loaded, then translatePkg is called.
RunTranslatePkg ==
    /\ pc = "Translate"
    /\ stack = <<>>
    /\ pkgIdx <= Len(world.pkgs)
    /\ UNCHANGED <<world, pkgIdx, genIdx, req, procs, written>>
    /\ \E cfgOk \in BOOLEAN :
         IF world.entry = "Run" /\ ~cfgOk
           THEN Return("unable to load gunkconfig") /\ UNCHANGED <<gen, stack, hist>>
           ELSE TranslateCall(world.pkgs[pkgIdx], <<>>,
                              translatePkg(gen, world.pkgs[pkgIdx]))

\* The innermost call of translatePkg calls translatePkg for the next
\* package it has left to translate.
TranslateRecurse ==
    /\ pc = "Translate"
    /\ stack # <<>>
    /\ Last(stack).left # <<>>
    /\ UNCHANGED <<world, pkgIdx, genIdx, req, procs, written>>
    /\ TranslateCall(Head(Last(stack).left),
                     [stack EXCEPT ![Len(stack)].left = Tail(@)],
                     translatePkg(gen, Head(Last(stack).left)))

\* The innermost call of translatePkg has nothing left and returns nil.
TranslateReturn ==
    /\ pc = "Translate"
    /\ stack # <<>>
    /\ Last(stack).left = <<>>
    /\ stack' = SubSeq(stack, 1, Len(stack) - 1)
    /\ pkgIdx' = IF Len(stack) = 1 THEN pkgIdx + 1 ELSE pkgIdx
    /\ hist' = [hist EXCEPT !.last = "return", !.returned = @ \cup {Last(stack).pkgPath},
                            !.translated = IF Len(stack) = 1 THEN @ + 1 ELSE @]
    /\ UNCHANGED <<world, pc, genIdx, gen, req, ret, procs, written>>

\* Run: every package is translated; protoc is checked or downloaded.
RunCheckProtoc ==
    /\ pc = "Translate"
    /\ stack = <<>>
    /\ pkgIdx > Len(world.pkgs)
    /\ hist' = [hist EXCEPT !.last = "CheckOrDownloadProtoc"]
    /\ UNCHANGED <<world, pkgIdx, genIdx, gen, stack, req, procs, written>>
    /\ \E ok \in BOOLEAN :
         IF world.entry = "Run" /\ ~ok THEN Return("unable to check or download protoc")
         ELSE pc' = "LoadProtoDeps" /\ ret' = ret

\* loadProtoDeps whose error is not looked at.
RunLoadProtoDepsUnchecked ==
    /\ pc = "LoadProtoDeps"
    /\ UNCHANGED <<world, genIdx, stack, req, procs, written, ret>>
    /\ pkgIdx' = 1
    /\ pc' = IF world.entry = "Run" THEN "Generate" ELSE "Request"
    /\ \E ok \in BOOLEAN :
         /\ hist' = [hist EXCEPT !.loads = @ + 1, !.loadOk = ok, !.last = "loadProtoDeps"]
         /\ gen' = IF ok THEN loadProtoDeps(gen, LoadProto(MissingDeps(gen))) ELSE gen

\* loadProtoDeps: the missing dependencies are asked of the resolver.
RunLoadProtoDeps ==
    /\ pc = "LoadProtoDeps"
    /\ UNCHANGED <<world, genIdx, stack, req, procs, written>>
    /\ \E ok \in BOOLEAN :
         /\ hist' = [hist EXCEPT !.loads = @ + 1, !.loadOk = ok, !.last = "loadProtoDeps"]
         /\ IF ~ok THEN Return("unable to load protodeps") /\ UNCHANGED <<gen, pkgIdx>>
            ELSE /\ gen' = loadProtoDeps(gen, LoadProto(MissingDeps(gen)))
                 /\ pkgIdx' = 1
                 /\ pc' = IF world.entry = "Run" THEN "Generate" ELSE "Request"
                 /\ ret' = ret

\* The end of a call of requestForPkg with result r: a panic ends the run.
Requested(r, onward) ==
    IF r.panic THEN Return("panic") /\ UNCHANGED <<req, genIdx>>
    ELSE req' = r.req /\ genIdx' = 1 /\ onward

\* FileDescriptorSet: the request of the one package gives the set.
FdsRequest ==
    /\ pc = "Request"
    /\ hist' = [hist EXCEPT !.last = "requestForPkg"]
    /\ UNCHANGED <<world, pkgIdx, gen, stack, procs, written>>
    /\ \E order \in Perms(DOMAIN gen.allProto) :
         Requested(requestForPkg(gen, world.pkgs[1], order), Return("nil"))

\* One turn of Run's loop over the packages up to GeneratePkg's loop over
\* the generators: protoc is checked, the request is built.
GeneratePkgBegin ==
    /\ pc = "Generate"
    /\ req = NoReq
    /\ pkgIdx <= Len(world.pkgs)
    /\ hist' = [hist EXCEPT !.last = "requestForPkg"]
    /\ UNCHANGED <<world, pkgIdx, gen, stack, procs, written>>
    /\ \E ok \in BOOLEAN :
         IF ~ok THEN Return("unable to check or download protoc") /\ UNCHANGED <<req, genIdx>>
         ELSE \E order \in Perms(DOMAIN gen.allProto) :
                Requested(requestForPkg(gen, world.pkgs[pkgIdx], order), UNCHANGED <<pc, ret>>)

\* The process a generator is run as: its command, what it reads, whether
\* it failed, the Error of its response and the watcher left behind.
Proc(cmd, rq, pfiles, failed, error, d) ==
    [cmd |-> cmd, pkgIdx |-> pkgIdx, genIdx |-> genIdx, Parameter |-> rq.Parameter,
     FileToGenerate |-> rq.FileToGenerate, ProtoFile |-> pfiles, failed |-> failed,
     Error |-> error, watcher |-> d]

\* The files a process wrote, marked with the index of the process.
WrittenBy(files, proc) == [n \in 1..Len(files) |-> [files[n] EXCEPT !.proc = proc]]

\* GeneratePkg returns the error of a generator that cannot be run.
GeneratorRefused(why) ==
    /\ Return("unable to generate pkg")
    /\ hist' = [hist EXCEPT !.last = why]
    /\ UNCHANGED <<genIdx, gen, req, procs, written>>

\* The end of the turn that goes on whether or not the generator failed.
GeneratorDoneUnchecked(failed) == genIdx' = genIdx + 1 /\ UNCHANGED <<pc, ret>>

\* The end of one turn of GeneratePkg's loop: an error of the generator
\* is returned, and Run returns it.
GeneratorDone(failed) ==
    IF failed THEN Return("unable to generate pkg") /\ genIdx' = genIdx
    ELSE genIdx' = genIdx + 1 /\ UNCHANGED <<pc, ret>>

\* generateProtoc has run with result r.
ProtocRan(r) ==
    /\ procs' = IF r.spawned
                  THEN Append(procs, Proc("protoc", req, protocFiles(req), r.err, "", r.watcher))
                  ELSE procs
    /\ written' = written \o WrittenBy(r.written, Len(procs) + 1)
    /\ hist' = [hist EXCEPT !.last = "generateProtoc"]
    /\ gen' = r.g
    /\ req' = req
    /\ GeneratorDone(r.err)

\* One turn of GeneratePkg's loop for a generator that is protoc.
GenerateProtoc ==
    /\ pc = "Generate"
    /\ req # NoReq
    /\ genIdx <= Len(world.gens)
    /\ world.gens[genIdx].Protoc
    /\ UNCHANGED <<world, pkgIdx, stack>>
    /\ IF world.gens[genIdx].PluginVersion # "" THEN GeneratorRefused("pinned protoc")
       ELSE \E env \in ProtocEnvs :
              \E fail \in Failures(Len(env.events)) :
                ProtocRan(generateProtoc(gen, req, world.gens[genIdx], env, fail))

\* generatePlugin has run the plugin gn on rq with result r.
PluginRan(gn, rq, resp, r) ==
    /\ procs' = Append(procs, Proc(gn.Command, rq, rq.ProtoFile, r.err, resp.Error, "nil"))
    /\ written' = written \o WrittenBy(r.written, Len(procs) + 1)
    /\ hist' = [hist EXCEPT !.last = "generatePlugin"]
    /\ req' = requestCopied(req, rq)
    /\ GeneratorDone(r.err)

PluginCall(gn, rq, resp, order, fail) ==
    PluginRan(gn, rq, resp, generatePlugin(gen, rq, gn, resp, order, fail))

\* One turn of GeneratePkg's loop for a protoc-gen-* plugin: a pinned
\* version is downloaded, the plugin is run.
GeneratePlugin ==
    /\ pc = "Generate"
    /\ req # NoReq
    /\ genIdx <= Len(world.gens)
    /\ ~world.gens[genIdx].Protoc
    /\ UNCHANGED <<world, pkgIdx, gen, stack>>
    /\ IF world.gens[genIdx].PluginVersion # "" /\ ~world.gens[genIdx].Known
         THEN GeneratorRefused("pinned plugin")
       ELSE \E download \in (IF world.gens[genIdx].PluginVersion # "" THEN BOOLEAN ELSE {TRUE}) :
              IF ~download THEN GeneratorRefused("download")
              ELSE \E resp \in Responses :
                     \E order \in Perms(gen.gunkPkgs), fail \in Failures(Len(resp.File)) :
                       PluginCall(world.gens[genIdx], pluginRequest(req, world.gens[genIdx]),
                                  resp, order, fail)

\* GeneratePkg returns nil; Run goes on to the next package, or returns.
GeneratePkgEnd ==
    /\ pc = "Generate"
    /\ req # NoReq
    /\ genIdx > Len(world.gens)
    /\ req' = NoReq
    /\ pkgIdx' = pkgIdx + 1
    /\ genIdx' = 1
    /\ hist' = [hist EXCEPT !.last = "GeneratePkg"]
    /\ UNCHANGED <<world, gen, stack, procs, written>>
    /\ IF pkgIdx = Len(world.pkgs) THEN Return("nil") ELSE UNCHANGED <<pc, ret>>

Next ==
    \/ RunLoad
    \/ RunTranslatePkg
    \/ TranslateRecurse
    \/ TranslateReturn
    \/ RunCheckProtoc
    \/ RunLoadProtoDeps
    \/ FdsRequest
    \/ GeneratePkgBegin
    \/ GenerateProtoc
    \/ GeneratePlugin
    \/ GeneratePkgEnd

Spec == Init /\ [][Next]_vars

(***************************************************************************)
(* The conversions applied on their own.  world.call names the function    *)
(* and its argument; the Generator is the one translatePkg has prepared    *)
(* for package a (which knows a/b), or a fresh one for translatePkg.       *)
(***************************************************************************)
\* Bound of the model: how deep slices, channels, maps and pointers nest
\* in the types handed to convertType.
MaxTypeDepth == 2

\* The universe type error: a named type without a package.
ErrorType == Named(<<>>, "error", "interface")

AtomTypes ==
    { Basic(k) : k \in BasicKinds \cup {"byte", "complex128"} }
    \cup { TimeTime, TimeDuration, ErrorType,
           Named(pA, "T", "struct"), Named(pAB, "T", "struct"), Named(pAB, "E", "int32"),
           Named(pAB, "I", "int"), Named(pAB, "S", "string"), Named(pC, "T", "struct") }

\* The types of S and the types one constructor makes of them.
Wrap(S) ==
    S \cup { Slice(t) : t \in S } \cup { Chan(t) : t \in S } \cup { Pointer(t) : t \in S }
      \cup { Map(Basic("string"), t) : t \in S }

RECURSIVE TypesUpTo(_)
TypesUpTo(n) == IF n = 0 THEN AtomTypes ELSE Wrap(TypesUpTo(n - 1))

\* The calls explored.
Calls == { [fn |-> "convertType", typ |-> t] : t \in TypesUpTo(MaxTypeDepth) }

\* The input of a call: package a, which imports and uses a/b.
CallWorld(call) ==
    [BaseWorld EXCEPT !.fam = "C", !.ab = "used"] @@ [call |-> call]

CallWorlds == { CallWorld(call) @@ [packages |-> Packages(CallWorld(call))] : call \in Calls }

\* The Generator as translatePkg has set it up for pkgPath before the walk
\* over the declarations.
Translating(g, pkgPath) ==
    [g EXCEPT !.curPkg = pkgPath, !.usedImports = {}, !.pfile = unifiedProtoFile(pkgPath),
              !.allProto = (unifiedProtoFile(pkgPath) :>
                              NewFile(unifiedProtoFile(pkgPath), GunkPackage(pkgPath), pkgPath,
                                      fileOptions(GunkPackage(pkgPath)).o)) @@ @,
              !.messageIndex = 0, !.serviceIndex = 0, !.enumIndex = 0]

CallInit ==
    /\ world \in CallWorlds
    /\ pc = "Call"
    /\ pkgIdx = 1
    /\ genIdx = 1
    /\ gen = Translating(recordPkgs(NewGenerator, <<pA>>), pA)
    /\ stack = <<>>
    /\ req = NoReq
    /\ ret = ""
    /\ procs = <<>>
    /\ written = <<>>
    /\ hist = <<>>

\* What a call returned, the Generator left aside.
Outcome(r) == [x \in (DOMAIN r) \ {"g"} |-> r[x]]

\* The call has returned r.
Returned(r) ==
    /\ gen' = r.g
    /\ ret' = Outcome(r)
    /\ pc' = "Returned"
    /\ UNCHANGED <<world, pkgIdx, genIdx, stack, req, procs, written, hist>>

CallConvertType ==
    /\ pc = "Call"
    /\ world.call.fn = "convertType"
    /\ Returned(convertType(gen, world.call.typ))

CallNext ==
    \/ CallConvertType

CallSpec == CallInit /\ [][CallNext]_vars

(***************************************************************************)
(* The translation of one package whose declarations are drawn from        *)
(* bounded sets: Run up to the end of its loop over the packages.          *)
(***************************************************************************)
\* Bounds of the model: the option tags one method carries, and the value
\* specs one CONST declaration holds.
MaxTags == 3
MaxConsts == 3

StructDecl(name, fields, doc) ==
    GenDecl("TYPE", <<TypeSpec(name, "struct", fields, <<>>, doc)>>)
ServiceDecl(methods) ==
    GenDecl("TYPE", <<TypeSpec("Srv", "interface", <<>>, methods, "")>>)
EnumDecl(name, doc) ==
    GenDecl("TYPE", <<TypeSpec(name, "ident", <<>>, <<>>, doc)>>)

\* The first source file of the package imports a/b.
FirstFile(decls) == File(<<ImportSpec(pAB, "")>>, decls)

\* The types of the fields: every type of the conversions above, and maps
\* with every key type.
FieldTypes ==
    TypesUpTo(MaxTypeDepth) \cup { Map(k, Basic("string")) : k \in AtomTypes }

\* Messages: a struct M with one field F, or with a map field F before or
\* after a second field G.
MessageFiles ==
    { << FirstFile(<<StructDecl("M", <<Field("F", t, <<"1">>)>>, "")>>) >> : t \in FieldTypes }
    \cup { << FirstFile(<<StructDecl("M", <<Field("F", t, <<"1">>), Field("G", u, <<"2">>)>>, "")>>) >> :
             t \in { Map(Basic("string"), Basic("string")), Map(Basic("string"), Named(pA, "M", "struct")) },
             u \in TypesUpTo(1) }

\* Services: a method with every parameter list and every result list of
\* at most two types.
Tuples(types) ==
    { <<>>, <<Named(pA, "T", "struct"), Named(pA, "T", "struct")>> }
    \cup { <<t>> : t \in types }

ServiceFiles ==
    { << FirstFile(<<StructDecl("T", OwnFields, ""),
                     ServiceDecl(<<Method("M", m[1], m[2], <<>>)>>)>>) >> :
        m \in ({ <<p, <<Named(pA, "T", "struct")>> >> : p \in Tuples(TypesUpTo(MaxTypeDepth)) }
               \cup { << <<>>, r >> : r \in Tuples(TypesUpTo(1)) }) }

\* Methods with option tags: every sequence of tags on the first method
\* and, after at most one tag, a second method that has an http.Match of
\* its own.
HttpMatchBody(method, path, body) == [HttpMatch(method, path) EXCEPT !.Body = body]

MethodTags ==
    { HttpMatch("", "/a"), HttpMatch("GET", "/b"), HttpMatchBody("POST", "/c", "*"),
      HttpMatch("DELETE", "/d"), HttpMatch("PUT", "/e"), HttpMatch("PATCH", "/f"),
      HttpMatch("HEAD", "/g"), Tag("github.com/gunk/opt/method.Deprecated") }

TaggedFiles ==
    { << FirstFile(<<ServiceDecl(<<Method("M", <<>>, <<>>, tags)>>)>>) >> :
        tags \in SeqsUpTo(MethodTags, MaxTags) }
    \cup { << FirstFile(<<ServiceDecl(<<Method("M", <<>>, <<>>, tags),
                                        Method("N", <<>>, <<>>, <<HttpMatch("", "/n")>>)>>)>>) >> :
             tags \in SeqsUpTo(MethodTags, 1) }

\* Enums: a struct T, then the enum type E, one CONST declaration and,
\* or not, the enum type F, in every order and in either of two source
\* files.  Every item but the constant X has a doc comment.
DocText(name) == "doc of " \o name

DocValue(name, type, val) == [ValueSpec(name, type, val) EXCEPT !.Doc = DocText(name)]

ConstSpecs ==
    { DocValue("E0", "E", [hi |-> 0, lo |-> 0]), DocValue("E1", "E", [hi |-> 1, lo |-> 5]),
      DocValue("F0", "F", [hi |-> 0, lo |-> 1]), ValueSpec("X", "", [hi |-> 0, lo |-> 7]) }

Injective(q) == \A i, j \in 1..Len(q) : q[i] = q[j] => i = j

ConstBlocks == { q \in SeqsUpTo(ConstSpecs, MaxConsts) : Injective(q) }

EnumItems(consts) ==
    { { EnumDecl("E", DocText("E")), GenDecl("CONST", consts) } \cup more :
        more \in { {}, { EnumDecl("F", DocText("F")) } } }

EnumFiles ==
    { << FirstFile(<<StructDecl("T", OwnFields, DocText("T"))>> \o SubSeq(oc[1], 1, oc[2])),
         File(<<>>, SubSeq(oc[1], oc[2] + 1, Len(oc[1]))) >> :
        oc \in UNION { { <<order, cut>> : cut \in 0..Len(order) } :
                         order \in UNION { Perms(items) :
                                    items \in UNION { EnumItems(consts) : consts \in ConstBlocks } } } }

\* The package a with these source files; it imports a/b.
SchemaPackage(files) == MkPackage(pA, "a", DirOf(pA), files, {pAB})

TranslateWorld(files) ==
    [BaseWorld EXCEPT !.fam = "D", !.ab = "used", !.entry = "FileDescriptorSet"]
        @@ [files |-> files]

TranslateWorlds ==
    { TranslateWorld(files)
        @@ [packages |-> [Packages(TranslateWorld(files)) EXCEPT ![pA] = SchemaPackage(files)]] :
        files \in MessageFiles \cup ServiceFiles \cup TaggedFiles \cup EnumFiles }

TranslateInit ==
    /\ world \in TranslateWorlds
    /\ pc = "Load"
    /\ pkgIdx = 1
    /\ genIdx = 1
    /\ gen = NewGenerator
    /\ stack = <<>>
    /\ req = NoReq
    /\ ret = ""
    /\ procs = <<>>
    /\ written = <<>>
    /\ hist = [walks |-> [p \in Loaded |-> 0], calls |-> 0, early |-> FALSE, arg |-> <<>>,
               returned |-> {}, translated |-> 0, loads |-> 0, loadOk |-> FALSE,
               last |-> ""]

TranslateNext ==
    \/ RunLoad
    \/ RunTranslatePkg
    \/ TranslateRecurse
    \/ TranslateReturn

TranslateSpec == TranslateInit /\ [][TranslateNext]_vars

(***************************************************************************)
(* Properties.                                                             *)
(***************************************************************************)
\* Every dependency name of every file of table t is a key of t.
Closed(t) == \A k \in DOMAIN t : \A d \in Range(t[k].Dependency) : d \in DOMAIN t

\* The names that the names of S reach through dependencies, S included.
RECURSIVE ReachFrom(_, _)
ReachFrom(t, S) ==
    IF UNION { Range(t[k].Dependency) : k \in S \cap DOMAIN t } \subseteq S THEN S
    ELSE ReachFrom(t, S \cup UNION { Range(t[k].Dependency) : k \in S \cap DOMAIN t })

\* Table t holds a file that depends on itself through one or more steps.
HasCycle(t) == \E k \in DOMAIN t : k \in ReachFrom(t, Range(t[k].Dependency))

\* names lists every file of table t exactly once, each one after all the
\* files its Dependency names.
Sorted(t, names) ==
    /\ Len(names) = Cardinality(DOMAIN t)
    /\ Range(names) = DOMAIN t
    /\ \A i \in 1..Len(names) :
         \A d \in Range(t[names[i]].Dependency) : \E j \in 1..(i - 1) : names[j] = d

\* The files of table t in the order order.
FilesIn(t, order) == [n \in 1..Len(order) |-> t[order[n]]]

\* The names of a list of files.
NamesOf(files) == [n \in 1..Len(files) |-> files[n].Name]

\* The table is complete: loadProtoDeps has just returned without error.
TableLoaded == hist.last = "loadProtoDeps" /\ hist.loadOk

\* C1: for a table with distinct names that is closed and free of cycles,
\* topologicalSort returns, for every order of its input, every file exactly
\* once and each file after all the files its Dependency names; it panics
\* for no such table; the ProtoFile list of every request built and of every
\* plugin spawned has this property.
TopologicalSortSorts ==
    /\ req # NoReq => Sorted(gen.allProto, req.ProtoFile)
    /\ \A i \in 1..Len(procs) :
         procs[i].cmd # "protoc" => Sorted(gen.allProto, procs[i].ProtoFile)
    /\ ret = "panic" => ~Closed(gen.allProto) \/ HasCycle(gen.allProto)
    /\ (TableLoaded /\ Closed(gen.allProto) /\ ~HasCycle(gen.allProto)) =>
         \A order \in Perms(DOMAIN gen.allProto) :
            /\ ~topologicalSort(FilesIn(gen.allProto, order)).panic
            /\ Sorted(gen.allProto,
                      NamesOf(topologicalSort(FilesIn(gen.allProto, order)).result))

\* A plugin has been handed at least three files, one of which has
\* dependencies.
SortedRequestDelivered ==
    /\ Len(procs) >= 1
    /\ procs[1].cmd # "protoc"
    /\ Len(procs[1].ProtoFile) >= 3
    /\ \E k \in DOMAIN gen.allProto : Len(gen.allProto[k].Dependency) >= 2

RequestOrderIndependent ==
    req # NoReq =>
        \A order \in Perms(DOMAIN gen.allProto) :
            requestForPkg(gen, world.pkgs[1], order).req.ProtoFile = req.ProtoFile

\* What topologicalSort leaves when it panics: no file that is missing from
\* the result could have been added by one more pass.
Stuck(files, sorted) ==
    /\ sorted.panic
    /\ Len(sorted.result) < Len(files)
    /\ \A n \in 1..Len(files) :
         files[n].Name \notin Range(NamesOf(sorted.result)) =>
            \E d \in Range(files[n].Dependency) : d \notin Range(NamesOf(sorted.result))

\* C4: with a dependency cycle in the table topologicalSort panics, for
\* every order of its input, at the first pass that adds no file; no request
\* is built, no generator is spawned and the run does not return nil.
CycleAborts ==
    HasCycle(gen.allProto) =>
        /\ procs = <<>>
        /\ req = NoReq
        /\ written = <<>>
        /\ pc = "Done" => ret # "nil"
        /\ TableLoaded =>
             \A order \in Perms(DOMAIN gen.allProto) :
                Stuck(FilesIn(gen.allProto, order),
                      topologicalSort(FilesIn(gen.allProto, order)))

\* The run has panicked on a table in which a, a/b and c depend on one
\* another in a cycle.
CyclePanicked ==
    /\ ret = "panic"
    /\ HasCycle(gen.allProto)
    /\ {unifiedProtoFile(pA), unifiedProtoFile(pAB), unifiedProtoFile(pC)}
          \subseteq DOMAIN gen.allProto
    /\ unifiedProtoFile(pA) \in ReachFrom(gen.allProto, {unifiedProtoFile(pC)})
    /\ unifiedProtoFile(pC) \in ReachFrom(gen.allProto, {unifiedProtoFile(pAB)})

\* The errors that end the run in the loader or in the translation.
EarlyErrors ==
    { "error loading packages", "no Gunk packages to generate",
      "can only get filedescriptorset for a single Gunk package",
      "encountered package loading errors", "unable to load gunkconfig",
      "unable to translate pkg" }

\* C5: loadProtoDeps runs at most once and only after translatePkg has
\* returned for every requested package; a generator is spawned only after
\* loadProtoDeps has returned without error; a run that ends with a loader
\* error, without packages or with a translation error has not called
\* loadProtoDeps and has spawned no generator.
GenerationAfterLoad ==
    /\ hist.loads <= 1
    /\ hist.loads = 1 =>
         /\ hist.translated = Len(world.pkgs)
         /\ stack = <<>>
         /\ pc \notin {"Load", "Translate"}
    /\ hist.loads = 0 => procs = <<>> /\ req = NoReq /\ written = <<>> /\ ~hist.loadOk
    /\ (procs # <<>> \/ req # NoReq) => hist.loadOk
    /\ ret \in EarlyErrors => hist.loads = 0 /\ procs = <<>>
    /\ ret = "unable to load protodeps" => procs = <<>> /\ req = NoReq

\* A generator has been spawned in a run that translated two requested
\* packages and then loaded the dependencies.
GeneratedAfterLoad ==
    /\ procs # <<>>
    /\ hist.translated >= 2
    /\ hist.loads = 1

\* C6: a generator that failed is the last one spawned, and the run has
\* returned the error; a generator that cannot be run ends the run as well;
\* no file written comes from a response with a non-empty Error.
FailureStops ==
    /\ \A i \in 1..Len(procs) :
         /\ procs[i].failed =>
               i = Len(procs) /\ pc = "Done" /\ ret = "unable to generate pkg"
         /\ procs[i].Error # "" => procs[i].failed
    /\ hist.last \in {"pinned protoc", "pinned plugin", "download"} =>
         pc = "Done" /\ ret = "unable to generate pkg"
    /\ \A n \in 1..Len(written) :
         /\ written[n].proc \in 1..Len(procs)
         /\ procs[written[n].proc].Error = ""

\* The second generator answered with an Error and files after the first
\* one had written a file.
FailedAfterWriting ==
    /\ Len(procs) = 2
    /\ procs[2].Error # ""
    /\ written # <<>>
    /\ pc = "Done"

\* C7: no package has its declarations walked more than once, and a call
\* translatePkg(P) made when P's file is in the table returns nil and leaves
\* the Generator (the table, its descriptors, the current package) as it
\* was.
TranslateOnce ==
    [][ /\ \A p \in Loaded : hist'.walks[p] <= 1
        /\ ( /\ hist'.calls # hist.calls
             /\ hist'.arg \in gen.gunkPkgs
             /\ unifiedProtoFile(hist'.arg) \in DOMAIN gen.allProto )
           => gen' = gen /\ hist'.early /\ pc' = pc /\ ret' = ret ]_vars

\* translatePkg has been called for a package that was translated before.
TranslatedAgain ==
    /\ hist.early
    /\ hist.last = "translatePkg"
    /\ hist.walks[hist.arg] = 1
    /\ Len(stack) >= 2

\* The packages whose named types the conversion of typ marks as used.
RECURSIVE NamedIn(_)
NamedIn(typ) ==
    IF typ.k = "Named" THEN (IF typ \in {TimeTime, TimeDuration} THEN {} ELSE {typ.pkg})
    ELSE IF typ.k \in {"Slice", "Chan", "Map"}
      THEN UNION { NamedIn(typ.elem[i]) : i \in 1..Len(typ.elem) }
    ELSE {}

\* The types of the fields, parameters and results of a type spec.
SpecTypes(ts) ==
    { ts.Fields[i].Type : i \in 1..Len(ts.Fields) }
    \cup UNION { Range(ts.Methods[i].Params) \cup Range(ts.Methods[i].Results) :
                   i \in 1..Len(ts.Methods) }

\* The types the translation of a source file converts.
FileTypes(file) ==
    UNION { UNION { SpecTypes(file.Decls[d].Specs[s]) : s \in 1..Len(file.Decls[d].Specs) } :
              d \in { e \in 1..Len(file.Decls) : file.Decls[e].Tok = "TYPE" } }

\* A named type of package Q is converted while package P is translated.
Converts(P, Q) ==
    \E n \in 1..Len(GunkPackage(P).GunkSyntax) :
       \E typ \in FileTypes(GunkPackage(P).GunkSyntax[n]) : Q \in NamedIn(typ)

\* A source file of P imports Q under one of the names of names.
Imports(P, Q, names) ==
    \E n \in 1..Len(GunkPackage(P).GunkSyntax) :
       \E i \in 1..Len(GunkPackage(P).GunkSyntax[n].Imports) :
          /\ GunkPackage(P).GunkSyntax[n].Imports[i].Path = Q
          /\ GunkPackage(P).GunkSyntax[n].Imports[i].Name \in names

\* Q is a known package with at least one Gunk file.
HasSchema(Q) == Q \in gen.gunkPkgs /\ Len(GunkPackage(Q).GunkNames) > 0

\* <Q>/all.proto, the name of the descriptor file of package Q.
AllProto(Q) == Q \o <<"/", "all.proto">>

\* The file of Q is a dependency of the file of P.
DependsOnPkg(P, Q) == AllProto(Q) \in Range(gen.allProto[AllProto(P)].Dependency)

\* C8: after translatePkg(P) has returned, the file of Q is a dependency of
\* the file of P exactly if a source file of P imports Q under a name other
\* than _, Q is known and has Gunk files, and a named type of Q was
\* converted while P was translated; every such Q is translated by then.
DependencyIffUsedNamedImport ==
    \A P \in hist.returned : \A Q \in Loaded :
        /\ DependsOnPkg(P, Q) <=>
              Imports(P, Q, {""}) /\ HasSchema(Q) /\ Converts(P, Q)
        /\ DependsOnPkg(P, Q) =>
              AllProto(Q) \in DOMAIN gen.allProto /\ hist.walks[Q] = 1

\* a has been translated after marking a/b and c used; a/b, translated
\* next, imports c without using it and does not depend on it.
UsedImportsReset ==
    /\ {pA, pAB} \subseteq hist.returned
    /\ DependsOnPkg(pA, pAB)
    /\ DependsOnPkg(pA, pC)
    /\ Imports(pAB, pC, {""})
    /\ ~DependsOnPkg(pAB, pC)

\* C8 as stated: the import may be under any name, _ included.
DependencyIffUsedImport ==
    \A P \in hist.returned : \A Q \in Loaded :
        DependsOnPkg(P, Q) <=>
           Imports(P, Q, {"", "_"}) /\ HasSchema(Q) /\ Converts(P, Q)

\* The known import paths that are a prefix of D.
KnownPrefixes(D) == { p \in gen.gunkPkgs : HasPrefix(D, p) }

\* The longest path of a set of paths.
Longest(S) == CHOOSE p \in S : \A q \in S : Len(q) <= Len(p)

\* Where generator gn, run for package mainPkgPath, is to write the
\* returned file name, whose directory part is D.
ExpectedPath(gn, mainPkgPath, name, D) ==
    IF D \in gen.gunkPkgs
      THEN Join(OutPath(gn, GunkPackage(D).Dir), SplitFile(name))
    ELSE IF KnownPrefixes(D) # {}
      THEN Join(OutPath(gn, GunkPackage(Longest(KnownPrefixes(D))).Dir)
                  \o TrimPrefix(D, Longest(KnownPrefixes(D))),
                SplitFile(name))
    ELSE Join(OutPath(gn, GunkPackage(mainPkgPath).Dir), name)

\* The written files that come from a plugin.
PluginWritten == { n \in 1..Len(written) : procs[written[n].proc].cmd # "protoc" }

\* C9: every file a plugin returned is written to the directory of the
\* package its directory part names, else to the directory of the package
\* with the longest import path that is a prefix of it followed by the
\* remainder, else under its full name to the directory of the package the
\* plugin was run for; OutPath maps each directory.
DestinationResolved ==
    \A n \in PluginWritten :
        written[n].Path =
            TrimPrefix(ExpectedPath(world.gens[procs[written[n].proc].genIdx],
                                    world.pkgs[procs[written[n].proc].pkgIdx],
                                    written[n].Name,
                                    Clean(SplitDir(written[n].Name))),
                       FakePath)

\* A plugin with a configured output directory has written a file found
\* by its longest prefix and a file no known path is a prefix of.
PrefixAndLocalWritten ==
    /\ world.gens = <<OutAbs>>
    /\ \E n, m \in PluginWritten :
          /\ written[n].Name = NameABC
          /\ written[n].Path = <<"/", "o", "/", "c", "/", "x.go">>
          /\ written[m].Name = NameZ
          /\ written[m].Path = <<"/", "o", "/", "z", "/", "x.go">>

\* s holds p as a contiguous part.
Contains(s, p) == \E i \in 0..(Len(s) - Len(p)) : SubSeq(s, i + 1, i + Len(p)) = p

\* C10: a file returned under fake-path.com/command-line-arguments/ is
\* written to a path that does not hold the fake path, whatever OutPath
\* returns.
FakePathRemoved ==
    \A n \in PluginWritten :
        HasPrefix(written[n].Name, FakePath) => ~Contains(written[n].Path, FakePath)

\* The scalar type of each basic kind of the mapping table.
ScalarOf(kind) ==
    CASE kind = "string" -> "TYPE_STRING"
      [] kind = "int" -> "TYPE_INT32"
      [] kind = "int32" -> "TYPE_INT32"
      [] kind = "uint" -> "TYPE_UINT32"
      [] kind = "uint32" -> "TYPE_UINT32"
      [] kind = "int64" -> "TYPE_INT64"
      [] kind = "uint64" -> "TYPE_UINT64"
      [] kind = "float32" -> "TYPE_FLOAT"
      [] kind = "float64" -> "TYPE_DOUBLE"
      [] kind = "bool" -> "TYPE_BOOL"

\* The kinds of the eight scalar groups.
ScalarKinds ==
    { "string", "int", "int32", "uint", "uint32", "int64", "uint64",
      "float32", "float64", "bool" }

Triple(t, l, n) == [ptype |-> t, plabel |-> l, tname |-> n]

\* The name .<proto package>.<name> of a type of package pkg.
QualifiedName(pkg, name) == <<".", GunkPackage(pkg).ProtoName, ".", name>>

\* The mapping table: the triple of each type, ("0", "0", "") for a type
\* outside the table.
RECURSIVE TableTriple(_)
TableTriple(typ) ==
    CASE typ.k = "Basic" ->
            IF typ.kind \in ScalarKinds
              THEN Triple(ScalarOf(typ.kind), "LABEL_OPTIONAL", <<>>)
              ELSE Triple("0", "0", <<>>)
      [] typ.k = "Slice" ->
            IF typ.elem[1] = Basic("byte") THEN Triple("TYPE_BYTES", "LABEL_OPTIONAL", <<>>)
            ELSE IF TableTriple(typ.elem[1]).ptype = "0" THEN Triple("0", "0", <<>>)
            ELSE Triple(TableTriple(typ.elem[1]).ptype, "LABEL_REPEATED",
                        TableTriple(typ.elem[1]).tname)
      [] typ.k = "Chan" -> TableTriple(typ.elem[1])
      [] typ.k = "Named" ->
            IF typ = TimeTime
              THEN Triple("TYPE_MESSAGE", "LABEL_OPTIONAL", <<".google.protobuf.Timestamp">>)
            ELSE IF typ = TimeDuration
              THEN Triple("TYPE_MESSAGE", "LABEL_OPTIONAL", <<".google.protobuf.Duration">>)
            ELSE IF typ.kind \in {"int", "int32"}
              THEN Triple("TYPE_ENUM", "LABEL_OPTIONAL", QualifiedName(typ.pkg, typ.name))
            ELSE IF typ.kind = "struct"
              THEN Triple("TYPE_MESSAGE", "LABEL_OPTIONAL", QualifiedName(typ.pkg, typ.name))
            ELSE Triple("0", "0", <<>>)
      [] OTHER -> Triple("0", "0", <<>>)

\* The packages of the named types that typ is, or is a slice or a channel
\* of.
RECURSIVE NamedReached(_)
NamedReached(typ) ==
    IF typ.k = "Named" THEN (IF typ \in {TimeTime, TimeDuration} THEN {} ELSE {typ.pkg})
    ELSE IF typ.k = "Chan" \/ (typ.k = "Slice" /\ typ.elem[1] # Basic("byte"))
      THEN NamedReached(typ.elem[1])
    ELSE {}

\* Every named type the conversion of typ reaches is of a known package or
\* of no package.
Resolvable(typ) == NamedReached(typ) \subseteq gen.gunkPkgs \cup {<<>>}

\* convertType has returned for a type whose packages are known.
ConvertTypeReturned ==
    pc = "Returned" /\ world.call.fn = "convertType" /\ Resolvable(world.call.typ)

\* C11: convertType returns without error the triple of the mapping table,
\* ("0", "0", "") for every type outside the table, and has marked the
\* package of every named type it converted as used.
ConvertTypeFollowsTable ==
    ConvertTypeReturned =>
        /\ ~ret.err
        /\ Triple(ret.ptype, ret.plabel, ret.tname) = TableTriple(world.call.typ)
        /\ NamedReached(world.call.typ) \subseteq gen.usedImports

\* The type specs of kind kind in the source files of package P.
FileSpecs(file, kind) ==
    UNION { { s \in Range(file.Decls[d].Specs) : s.Kind = kind } :
              d \in { e \in 1..Len(file.Decls) : file.Decls[e].Tok = "TYPE" } }

DeclaredSpecs(P, kind) ==
    UNION { FileSpecs(GunkPackage(P).GunkSyntax[n], kind) :
              n \in 1..Len(GunkPackage(P).GunkSyntax) }

\* The descriptor file of package P in the table.
FileOf(P) == gen.allProto[AllProto(P)]

\* translatePkg(P) has walked the declarations of P.
WalkedPkg(P) == hist.walks[P] > 0

\* The mapping table has no entry for typ: for a map, none for its key
\* type or none for its value type.
Unclassified(typ) ==
    IF typ.k = "Map"
      THEN TableTriple(typ.elem[1]).ptype = "0" \/ TableTriple(typ.elem[2]).ptype = "0"
      ELSE TableTriple(typ).ptype = "0"

HasUnclassifiedField(ts) == \E i \in 1..Len(ts.Fields) : Unclassified(ts.Fields[i].Type)

\* C12: when a struct has a field whose type cannot be classified, a map
\* field whose key or value type cannot be classified included, the
\* translation has failed and the file holds no message of that struct.
UnclassifiedFieldRejected ==
    WalkedPkg(pA) =>
        \A ts \in DeclaredSpecs(pA, "struct") :
            HasUnclassifiedField(ts) =>
                /\ ret = "unable to translate pkg"
                /\ \A i \in 1..Len(FileOf(pA).MessageType) : FileOf(pA).MessageType[i].Name # ts.Name

\* The struct of package P that message msg was made of.
StructOf(P, msg) == CHOOSE ts \in DeclaredSpecs(P, "struct") : ts.Name = msg.Name

\* The nested types of msg named name, by position.
NestedNamed(msg, name) == { j \in 1..Len(msg.NestedType) : msg.NestedType[j].Name = name }

\* nested is the entry type of a map: map_entry is set, its fields are key
\* with number 1 and value with number 2, both optional.
IsMapEntry(nested) ==
    /\ nested.Options = <<"MapEntry">>
    /\ Len(nested.Field) = 2
    /\ nested.Field[1].Name = "key" /\ nested.Field[1].Number = "1"
    /\ nested.Field[2].Name = "value" /\ nested.Field[2].Number = "2"
    /\ \A k \in 1..2 : nested.Field[k].Label = "LABEL_OPTIONAL"

\* Field fd of message msg of package P is the expansion of the map field
\* named name.
MapExpanded(P, msg, fd, name) ==
    /\ fd.Label = "LABEL_REPEATED"
    /\ fd.Type = "TYPE_MESSAGE"
    /\ fd.TypeName = QualifiedName(P, msg.Name \o "." \o name \o "Entry")
    /\ Cardinality(NestedNamed(msg, name \o "Entry")) = 1
    /\ \A j \in NestedNamed(msg, name \o "Entry") : IsMapEntry(msg.NestedType[j])

\* C13: every map field of every emitted message is repeated, of type
\* message and of the type .<package>.<Message>.<F>Entry, and the message
\* nests exactly one <F>Entry, a map entry with key = 1 and value = 2.
MapFieldsExpanded ==
    WalkedPkg(pA) =>
        \A m \in 1..Len(FileOf(pA).MessageType) :
            \A i \in 1..Len(StructOf(pA, FileOf(pA).MessageType[m]).Fields) :
                StructOf(pA, FileOf(pA).MessageType[m]).Fields[i].Type.k = "Map" =>
                    MapExpanded(pA, FileOf(pA).MessageType[m], FileOf(pA).MessageType[m].Field[i],
                                StructOf(pA, FileOf(pA).MessageType[m]).Fields[i].Names[1])

\* The translation of a package has failed.
TranslationFailed == ret = "unable to translate pkg"

\* The one parameter of type typ is accepted: its type has a type name in
\* the mapping table, is not repeated, and is of a known package.
NamedParameter(typ) ==
    /\ TableTriple(typ).tname # <<>>
    /\ TableTriple(typ).plabel # "LABEL_REPEATED"
    /\ NamedReached(typ) \subseteq gen.gunkPkgs

\* The parameter list or result list tuple is accepted.
Accepted(tuple) == Len(tuple) = 0 \/ (Len(tuple) = 1 /\ NamedParameter(tuple[1]))

\* The type and the streaming flag of one direction of a method.
Direction(tuple) ==
    IF Len(tuple) = 0 THEN [type |-> <<".google.protobuf.Empty">>, stream |-> "nil"]
    ELSE [type |-> TableTriple(tuple[1]).tname,
          stream |-> IF tuple[1].k = "Chan" THEN "true" ELSE "false"]

\* Method md of the descriptor is the translation of the method mt.
MethodConverted(md, mt) ==
    /\ md.Name = mt.Names[1]
    /\ [type |-> md.InputType, stream |-> md.ClientStreaming] = Direction(mt.Params)
    /\ [type |-> md.OutputType, stream |-> md.ServerStreaming] = Direction(mt.Results)

\* The services of the file of P named as the interface ts, by position.
ServicesNamed(P, ts) ==
    { s \in 1..Len(FileOf(P).Service) : FileOf(P).Service[s].Name = ts.Name }

\* A method of ts has no parameters or no results.
HasEmptyDirection(ts) ==
    \E i \in 1..Len(ts.Methods) : Len(ts.Methods[i].Params) = 0 \/ Len(ts.Methods[i].Results) = 0

\* The interface ts of package P is in the file of P as one service whose
\* methods are the translations of the methods of ts.
ServiceConverted(P, ts) ==
    /\ Cardinality(ServicesNamed(P, ts)) = 1
    /\ \A s \in ServicesNamed(P, ts) :
          /\ Len(FileOf(P).Service[s].Method) = Len(ts.Methods)
          /\ \A i \in 1..Len(ts.Methods) :
                MethodConverted(FileOf(P).Service[s].Method[i], ts.Methods[i])
    /\ HasEmptyDirection(ts) => EmptyProto \in Range(FileOf(P).Dependency)

\* C14: an empty parameter or result list gives .google.protobuf.Empty, an
\* unset streaming flag and the dependency on empty.proto; one parameter
\* of a named message or enum type of a known package, or a channel of it,
\* gives its qualified name and the streaming flag true exactly for the
\* channel; every other list makes the translation fail.
ParametersConverted ==
    WalkedPkg(pA) =>
        \A ts \in DeclaredSpecs(pA, "interface") :
            /\ (\E i \in 1..Len(ts.Methods) :
                   ~Accepted(ts.Methods[i].Params) \/ ~Accepted(ts.Methods[i].Results))
                 => TranslationFailed
            /\ ~TranslationFailed => ServiceConverted(pA, ts)
            /\ (\A i \in 1..Len(ts.Methods) :
                   /\ Accepted(ts.Methods[i].Params)
                   /\ Accepted(ts.Methods[i].Results)
                   /\ ts.Methods[i].Tags = <<>>)
                 => ~TranslationFailed

\* A client-streaming method has been emitted.
StreamingMethodEmitted ==
    /\ WalkedPkg(pA)
    /\ ~TranslationFailed
    /\ \E s \in 1..Len(FileOf(pA).Service) :
          \E i \in 1..Len(FileOf(pA).Service[s].Method) :
             /\ FileOf(pA).Service[s].Method[i].ClientStreaming = "true"
             /\ FileOf(pA).Service[s].Method[i].ServerStreaming = "false"

\* C14 as stated: every parameter or result list of exactly one element
\* gives that element's qualified type name and streaming flag.
SingleParameterConverted ==
    WalkedPkg(pA) =>
        \A ts \in DeclaredSpecs(pA, "interface") :
            (\A i \in 1..Len(ts.Methods) :
                /\ Len(ts.Methods[i].Params) <= 1
                /\ Len(ts.Methods[i].Results) <= 1
                /\ ts.Methods[i].Tags = <<>>)
              => (~TranslationFailed /\ ServiceConverted(pA, ts))

\* The concatenation of the sequences of seqs from position n on.
RECURSIVE Flatten(_, _)
Flatten(seqs, n) == IF n > Len(seqs) THEN <<>> ELSE seqs[n] \o Flatten(seqs, n + 1)

\* The declarations of package P, file after file.
DeclsOf(P) ==
    Flatten([n \in 1..Len(GunkPackage(P).GunkSyntax) |-> GunkPackage(P).GunkSyntax[n].Decls], 1)

IsConstDecl(decl) == decl.Tok = "CONST"

\* The constants of package P in declaration order.
ConstantsOf(P) ==
    Flatten([d \in 1..Len(SelectSeq(DeclsOf(P), IsConstDecl)) |->
                SelectSeq(DeclsOf(P), IsConstDecl)[d].Specs], 1)

\* The positions in ConstantsOf(P) of the constants of declared type N.
ConstantsOfType(P, N) == { c \in 1..Len(ConstantsOf(P)) : ConstantsOf(P)[c].Type = N }

\* The names and numbers of the enum values values.
NamesAndNumbers(values) ==
    [j \in 1..Len(values) |-> [Name |-> values[j].Name, Number |-> values[j].Number]]

\* Constant c of P as an enum value.
AsValue(c) == [Name |-> c.Names[1], Number |-> Int32(c.Val)]

\* The numbers of the set S in ascending order.
RECURSIVE Ascending(_)
Ascending(S) ==
    IF S = {} THEN <<>>
    ELSE <<CHOOSE x \in S : \A y \in S : x <= y>>
         \o Ascending(S \ {CHOOSE x \in S : \A y \in S : x <= y})

\* The enum values the constants of declared type N give.
ValuesOfType(P, N) ==
    [j \in 1..Cardinality(ConstantsOfType(P, N)) |->
        AsValue(ConstantsOf(P)[Ascending(ConstantsOfType(P, N))[j]])]

\* The enums of the file of P named N, by position.
EnumsNamed(P, N) == { e \in 1..Len(FileOf(P).EnumType) : FileOf(P).EnumType[e].Name = N }

\* C15: for every enum type N of a translated package, the file holds an
\* enum named N exactly when a constant of declared type N exists, and its
\* values are those constants in declaration order, numbered by the value
\* truncated to int32.
EnumsFollowConstants ==
    (WalkedPkg(pA) /\ ~TranslationFailed) =>
        \A ts \in DeclaredSpecs(pA, "ident") :
            /\ EnumsNamed(pA, ts.Name) # {} <=> ConstantsOfType(pA, ts.Name) # {}
            /\ \A e \in EnumsNamed(pA, ts.Name) :
                  NamesAndNumbers(FileOf(pA).EnumType[e].Value) = ValuesOfType(pA, ts.Name)

IsHttpMatch(tag) == tag.Type = "github.com/gunk/opt/http.Match"

\* The http.Match tags of a method, in order.
Matches(mt) == SelectSeq(mt.Tags, IsHttpMatch)

\* The verb of an http.Match tag: GET when it has no Method key.
VerbOf(tag) == IF tag.Method = "" THEN "GET" ELSE tag.Method

\* The rule of one http.Match tag, without bindings.
RuleOf(tag) ==
    [Pattern |-> <<VerbOf(tag), tag.Path>>, Body |-> tag.Body, AdditionalBindings |-> <<>>]

\* The rule of the http.Match tags ts: the rule of the first with the rules
\* of the others as its additional bindings.
RuleOfAll(ts) ==
    [RuleOf(ts[1]) EXCEPT !.AdditionalBindings = [j \in 1..(Len(ts) - 1) |-> RuleOf(ts[j + 1])]]

HasBadVerb(mt) ==
    \E j \in 1..Len(Matches(mt)) :
        VerbOf(Matches(mt)[j]) \notin {"GET", "POST", "DELETE", "PUT", "PATCH"}

\* How often path is in the Dependency list of the file of P.
Occurrences(P, path) ==
    Cardinality({ k \in 1..Len(FileOf(P).Dependency) : FileOf(P).Dependency[k] = path })

\* The methods of ts that carry an http.Match tag.
WithMatches(ts) == { i \in 1..Len(ts.Methods) : Len(Matches(ts.Methods[i])) >= 1 }

\* C16: a method with the http.Match tags t1..tn has the rule of t1 with
\* the rules of t2..tn as its additional bindings, in order; the pattern
\* of each rule is that of the tag's Method, GET when it has none; a verb
\* other than GET, POST, DELETE, PUT and PATCH makes the translation fail;
\* the file then depends on google/api/annotations.proto exactly once.
HttpRulesFollowTags ==
    WalkedPkg(pA) =>
        \A ts \in DeclaredSpecs(pA, "interface") :
            /\ (\E i \in 1..Len(ts.Methods) : HasBadVerb(ts.Methods[i])) => TranslationFailed
            /\ (~TranslationFailed /\ WithMatches(ts) # {}) =>
                  /\ \A s \in ServicesNamed(pA, ts) : \A i \in WithMatches(ts) :
                        FileOf(pA).Service[s].Method[i].Options.http = RuleOfAll(Matches(ts.Methods[i]))
                  /\ ServicesNamed(pA, ts) # {}
                  /\ Occurrences(pA, AnnotationsProto) = 1

\* A method with three http.Match tags has been emitted.
AdditionalBindingsEmitted ==
    /\ WalkedPkg(pA)
    /\ ~TranslationFailed
    /\ \E s \in 1..Len(FileOf(pA).Service) :
          Len(FileOf(pA).Service[s].Method[1].Options.http.AdditionalBindings) = 2

\* The leading comment that carries the doc comment text.
Comment(text) == " " \o text

\* The doc comment of the type of package P named name.
TypeDoc(P, name) ==
    (CHOOSE ts \in DeclaredSpecs(P, "struct") \cup DeclaredSpecs(P, "ident") : ts.Name = name).Doc

\* The doc comment of the constant of package P named name.
ConstantDoc(P, name) ==
    ConstantsOf(P)[CHOOSE c \in 1..Len(ConstantsOf(P)) : ConstantsOf(P)[c].Names[1] = name].Doc

\* The location loc of the file of package P carries the doc comment of
\* the item its path names.
LocationRight(P, loc) ==
    CASE Len(loc.Path) = 2 /\ loc.Path[1] = "message" ->
            \E i \in 1..Len(FileOf(P).MessageType) :
                /\ loc.Path[2] = ToString(i - 1)
                /\ loc.LeadingComments = Comment(TypeDoc(P, FileOf(P).MessageType[i].Name))
      [] Len(loc.Path) = 2 /\ loc.Path[1] = "enum" ->
            \E i \in 1..Len(FileOf(P).EnumType) :
                /\ loc.Path[2] = ToString(i - 1)
                /\ loc.LeadingComments = Comment(TypeDoc(P, FileOf(P).EnumType[i].Name))
      [] Len(loc.Path) = 4 /\ loc.Path[1] = "enum" ->
            \E i \in 1..Len(FileOf(P).EnumType) :
                /\ loc.Path[2] = ToString(i - 1)
                /\ \E j \in 1..Len(FileOf(P).EnumType[i].Value) :
                      /\ loc.Path[4] = ToString(j - 1)
                      /\ loc.LeadingComments =
                            Comment(ConstantDoc(P, FileOf(P).EnumType[i].Value[j].Name))
      [] OTHER -> TRUE

\* C17: in a translated file, the entry with path [message, i] carries the
\* doc comment of message i of the file, the entry with path [enum, i] that
\* of enum i of the file, and the entry with path [enum, i, value, j] that
\* of value j of enum i.
DocsFollowIndices ==
    (WalkedPkg(pA) /\ ~TranslationFailed) =>
        \A k \in 1..Len(FileOf(pA).SourceCodeInfo) :
            LocationRight(pA, FileOf(pA).SourceCodeInfo[k])

\* A step keeps every descriptor file of the table as it is.
FilesKept ==
    \A f \in DOMAIN gen.allProto :
        f \in DOMAIN gen'.allProto /\ gen'.allProto[f] = gen.allProto[f]

\* Every plugin run so far has received the file to generate, and every
\* file it received is in the table under the name it was received by.
PluginsReceiveTable ==
    \A n \in 1..Len(procs) :
        procs[n].cmd # "protoc" =>
            /\ procs[n].FileToGenerate[1] \in Range(procs[n].ProtoFile)
            /\ \A k \in 1..Len(procs[n].ProtoFile) :
                  /\ procs[n].ProtoFile[k] \in DOMAIN gen.allProto
                  /\ gen.allProto[procs[n].ProtoFile[k]].Name = procs[n].ProtoFile[k]

\* C18: once the file of a package is in the table, with the declaration
\* walk and the import step of its translatePkg done, no step changes it:
\* not the translation of another package, not loadProtoDeps, not a
\* request, not a generator; a plugin that runs after protoc receives the
\* file to generate under its name <importPath>/all.proto.
TranslatedFilesFrozen == [][FilesKept]_vars /\ []PluginsReceiveTable

\* A plugin has run after protoc for the same package.
PluginRanAfterProtoc ==
    \E n \in 1..(Len(procs) - 1) :
        /\ procs[n].cmd = "protoc"
        /\ procs[n + 1].cmd # "protoc"
        /\ procs[n + 1].pkgIdx = procs[n].pkgIdx
        /\ procs[n + 1].FileToGenerate = <<AllProto(pA)>>

\* C19: when translatePkg has returned an error for a package (hist.arg),
\* the file of that package is not in the table, so that every file of the
\* table is that of a package whose source files were all translated.
TableMarksCompletion ==
    TranslationFailed => AllProto(hist.arg) \notin DOMAIN gen.allProto

\* The paths of the new files that cannot be read.
Unreadable == { e.Path : e \in { f \in {NewFile1, NewFile2, NewDir} : f.ReadErr } }

\* The files written so far by protoc's post-processing, by position.
ProtocWritten == { n \in 1..Len(written) : procs[written[n].proc].cmd = "protoc" }

\* C20: a new file that cannot be read is not written back.
UnreadableNotWritten ==
    \A n \in ProtocWritten : written[n].Path \notin Unreadable

(***************************************************************************)
(* C21: the watcher of a protoc invocation                                 *)
(***************************************************************************)
\* The invocations of protoc made so far.
ProtocRuns == { n \in DOMAIN procs : procs[n].cmd = "protoc" }

\* C21: whenever a filesystem watcher has been set up for an invocation of
\* protoc, its events have been consumed by the time generateProtoc
\* returns, whether protoc succeeded or exited with a failure: no
\* invocation leaves a watcher that is still watching, and none is
\* watching when a later generator runs.
WatcherConsumed ==
    \A n \in ProtocRuns : procs[n].watcher # "watching"

(***************************************************************************)
(* C22: the request of each generator                                      *)
(***************************************************************************)
\* The processes that are protoc-gen-* plugins.
PluginRuns == DOMAIN procs \ ProtocRuns

\* The configured generator process n was run for.
ConfiguredFor(n) == world.gens[procs[n].genIdx]

\* The Parameter the claim gives the request of generator gn: its
\* parameter string when that is not empty, none otherwise.
OwnParameter(gn) == IF gn.Params = "" THEN <<>> ELSE <<gn.Params>>

\* C22: the request every plugin receives carries the plugin's own
\* parameter string as its Parameter when that string is not empty and no
\* Parameter when it is empty, whatever generators ran before it, and all
\* the generators of a package are given the same FileToGenerate and the
\* plugins among them the same ProtoFile.
RequestPerGenerator ==
    /\ \A n \in PluginRuns : procs[n].Parameter = OwnParameter(ConfiguredFor(n))
    /\ \A n \in DOMAIN procs :
         procs[n].FileToGenerate = <<unifiedProtoFile(world.pkgs[procs[n].pkgIdx])>>
    /\ \A n \in PluginRuns : \A m \in PluginRuns :
         procs[n].pkgIdx = procs[m].pkgIdx => procs[n].ProtoFile = procs[m].ProtoFile

\* A plugin without a parameter string has run after a generator of the
\* same package that was given one.
ParameterNotInherited ==
    \E n \in PluginRuns : \E m \in PluginRuns :
        /\ n < m
        /\ procs[n].pkgIdx = procs[m].pkgIdx
        /\ procs[n].Parameter # <<>>
        /\ procs[m].Parameter = <<>>
        /\ Len(procs[m].ProtoFile) > 1

(***************************************************************************)
(* C23: translatePkg terminates                                            *)
(***************************************************************************)
\* P imports Q by name, Q is a known package with Gunk files, and P
\* converts a named type of Q: translatePkg(P) has Q to translate.
UsedImport(P, Q) == Imports(P, Q, {""}) /\ HasSchema(Q) /\ Converts(P, Q)

\* The packages reached from those of S through used imports.
RECURSIVE ReachablePkgs(_)
ReachablePkgs(S) ==
    IF { Q \in Loaded : \E P \in S : UsedImport(P, Q) } \subseteq S THEN S
    ELSE ReachablePkgs(S \cup { Q \in Loaded : \E P \in S : UsedImport(P, Q) })

\* The file of every package whose translatePkg call is active is in the
\* table: it was registered before the call made a recursive call.
RegisteredBeforeRecursion ==
    \A i \in DOMAIN stack : AllProto(stack[i].pkgPath) \in DOMAIN gen.allProto

\* A call made by the entry point has just returned nil.
TopLevelReturned == stack = <<>> /\ hist.last = "return"

\* No package is walked twice, and when a call made by the entry point
\* returns nil every package reached from its package through used
\* imports has been walked once.
VisitedOnce ==
    /\ \A P \in Loaded : hist.walks[P] <= 1
    /\ TopLevelReturned =>
         \A Q \in ReachablePkgs({world.pkgs[hist.translated]}) : hist.walks[Q] = 1

\* The known packages whose file is not in the table yet.
Untranslated(g) == { P \in g.gunkPkgs : AllProto(P) \notin DOMAIN g.allProto }

\* The packages the active calls of translatePkg have left to translate.
RECURSIVE LeftToTranslate(_)
LeftToTranslate(calls) ==
    IF calls = <<>> THEN 0 ELSE Len(Head(calls).left) + LeftToTranslate(Tail(calls))

\* What is left of the recursion: the packages not translated yet, the
\* calls still to be made, the calls still to return.
Remaining(g, calls) == <<Cardinality(Untranslated(g)), LeftToTranslate(calls), Len(calls)>>

\* The lexicographic order of triples of naturals, which is well-founded.
Less(m, n) ==
    \/ m[1] < n[1]
    \/ m[1] = n[1] /\ m[2] < n[2]
    \/ m[1] = n[1] /\ m[2] = n[2] /\ m[3] < n[3]

\* Every step of an active call of translatePkg (a recursive call or a
\* return, with or without an error) leaves less of the recursion: no
\* call of the entry point is followed by infinitely many steps.
RecursionDecreases == stack # <<>> => Less(Remaining(gen, stack)', Remaining(gen, stack))

\* C23: translatePkg terminates on every graph of known packages, cycles
\* of used imports and packages imported by several source files
\* included: the file of a package is in the table before its call makes
\* a recursive call, every step of the recursion brings it closer to its
\* end, and the recursion walks every package reached through used
\* imports exactly once.
TranslatePkgTerminates ==
    /\ []RegisteredBeforeRecursion
    /\ []VisitedOnce
    /\ [][RecursionDecreases]_vars

\* The entry point's call for package a has returned nil where a and c use
\* each other's types and both source files of a import a/b: a, a/b and c
\* have been walked once each, in more calls than packages.
CycleTranslated ==
    /\ TopLevelReturned
    /\ hist.translated = 1
    /\ world.pkgs[1] = pA
    /\ UsedImport(pA, pC) /\ UsedImport(pC, pA) /\ UsedImport(pA, pAB)
    /\ \A P \in {pA, pAB, pC} : hist.walks[P] = 1
    /\ hist.calls > 3
====
